---------------------------- MODULE Spec2Model ----------------------------
(***************************************************************************)
(* A model of appleapi-core: the token provider (package token) with its   *)
(* read/write-locked cache, and the authenticating HTTP client with its    *)
(* functional options.                                                      *)
(*                                                                          *)
(* Spec        the TokenProvider: goroutines calling GetToken concurrently  *)
(* SpecClient  NewClient (both variants of the repository) and SetConfig   *)
(* SpecDo      Client.Do on a client either NewClient returned             *)
(* SpecShared  SetConfig and NewClient of the shared variant, concurrently *)
(* SpecConfig  DefaultConfig, the initializers and the TLS settings built   *)
(* SpecSigner  SignerECDSA.Sign, both methods                               *)
(***************************************************************************)
EXTENDS Integers, Sequences, FiniteSets, TLC

(***************************************************************************)
(* Bounds of the model.                                                     *)
(***************************************************************************)
NumProcs == 2          \* goroutines calling GetToken on the one provider
MaxCalls == 2          \* GetToken calls in one behaviour
MaxSig == 2            \* distinct signatures the randomised signer can return
MaxPeriods == 1        \* the now arguments lie around 0, TTL, .., MaxPeriods*TTL
MaxOpts == 3           \* options passed to one NewClient call
MaxDo == 2             \* Client.Do calls in one behaviour
MaxSetConfig == 1      \* SetConfig calls in one behaviour
MaxGoroutines == 3     \* goroutines calling SetConfig and NewClient concurrently
MaxObjs == 3           \* tls.Config objects allocated in one behaviour
MaxEdits == 2          \* modifications the caller makes to a configuration
MaxSigns == 2           \* Sign calls on one signer
MaxJWT == 1            \* SignedString calls on JWTClaims values
MaxLoads == 1          \* LoadPKCS8File calls
MaxCallbacks == 1      \* callbacks invoked on one trace
TicksPerSecond == 2    \* resolution of the clock: instants are ticks

Procs == 1..NumProcs
Sigs == 1..MaxSig

(***************************************************************************)
(* Time.  An instant is a number of ticks since the Unix epoch; Unix()      *)
(* truncates it to whole seconds as time.Time.Unix does.  The zero          *)
(* time.Time (year 1) lies before every instant a call passes.             *)
(***************************************************************************)
TokenTTL == 30 * 60 * TicksPerSecond
ZeroTime == 0 - 1
Unix(t) == t \div TicksPerSecond
Instants == {k * TokenTTL + d : k \in 0..MaxPeriods, d \in {0, 1}}

(***************************************************************************)
(* Strings and errors.  A compact token is the sequence of its three        *)
(* '.'-joined segments; the empty string is the empty sequence.  An error   *)
(* is the chain of its messages, outermost first; nil is the empty chain.   *)
(***************************************************************************)
EmptyStr == << >>
NoErr == << >>
Wrap(msg, err) == <<msg>> \o err

\* base64.RawURLEncoding.EncodeToString: injective on its input.
B64(x) == [b64 |-> x]
UnB64(s) == s.b64

\* json.Marshal of Header: both fields always present.
MarshalHeader(h) == [alg |-> h.Alg, kid |-> h.Kid]

\* json.Marshal of Payload: iss and iat carry omitempty, so an empty issuer
\* and a zero issued-at are left out of the object.
MarshalPayload(pl) ==
    IF pl.Issuer = "" /\ pl.IssuedAt = 0 THEN [omitted |-> {"iss", "iat"}]
    ELSE IF pl.Issuer = "" THEN [iat |-> pl.IssuedAt]
    ELSE IF pl.IssuedAt = 0 THEN [iss |-> pl.Issuer]
    ELSE [iss |-> pl.Issuer, iat |-> pl.IssuedAt]

\* json.Unmarshal into Payload: an absent field keeps its zero value.
UnmarshalPayload(obj) ==
    [Issuer |-> IF "iss" \in DOMAIN obj THEN obj.iss ELSE "",
     IssuedAt |-> IF "iat" \in DOMAIN obj THEN obj.iat ELSE 0]

(***************************************************************************)
(* SignerECDSA.Sign, as GetToken sees it: the outcomes of one signing with  *)
(* the provider's key.  A P-256 key yields a signature that depends on the  *)
(* random nonce, or the error of ecdsa.Sign; a key on another curve yields  *)
(* an error; a nil key makes ecdsa.Sign dereference nil (a panic).          *)
(***************************************************************************)
KeyKinds == {"P256", "P384", "nil"}

SignOutcomes(k) ==
    IF k = "nil" THEN {[kind |-> "panic", sig |-> 0, err |-> NoErr]}
    ELSE IF k = "P384"
    THEN {[kind |-> "err", sig |-> 0, err |-> <<"ecdsa sign failed">>],
          [kind |-> "err", sig |-> 0, err |-> <<"unsupported elliptic curve size">>]}
    ELSE {[kind |-> "ok", sig |-> s, err |-> NoErr] : s \in Sigs}
         \cup {[kind |-> "err", sig |-> 0, err |-> <<"ecdsa sign failed">>]}

\* JWTToken.SignedString for a given outcome of s.Sign(str).
SignedString(jt, out) ==
    LET str == <<B64(MarshalHeader(jt.Header)), B64(MarshalPayload(jt.Payload))>>
    IN  IF out.kind = "err"
        THEN [tok |-> EmptyStr, err |-> Wrap("failed to sign JWT data", out.err)]
        ELSE [tok |-> str \o <<B64(out.sig)>>, err |-> NoErr]

\* The issued-at a decoder recovers from a token's payload segment.
IssuedAtOf(tok) == UnmarshalPayload(UnB64(tok[2])).IssuedAt


(***************************************************************************)
(* State.                                                                   *)
(***************************************************************************)
VARIABLES
    \* --- TokenProvider (one instance) ---
    key,            \* kind of the private key given to NewProvider
    currentToken,   \* p.currentToken
    expiresAt,      \* p.expiresAt
    readers,        \* goroutines holding p.mu in read mode
    writer,         \* goroutine holding p.mu in write mode, or 0
    pc,             \* position of each goroutine in GetToken
    now,            \* the now argument of each goroutine's call
    res,            \* what each goroutine's call returned
    pending,        \* newToken of the goroutine between signing and storing
    calls,          \* GetToken calls started so far
    \* --- observations of each call (history) ---
    snap,           \* the valid entry the call started with, until another call writes
    seen,           \* the cache at the call's re-check under the write lock
    signed,         \* signer invocations of the call
    cache0,         \* the cache the behaviour started with
    \* --- package appleapi: NewClient ---
    variant,        \* which NewClient built the client: "ordered" or "shared"
    args,           \* the options as the caller passed them
    opts,           \* the caller's slice after the call
    client,         \* the *Client returned, or NilClient
    newErr,         \* the error NewClient returned
    applied,        \* options in the order their functions ran on the client
    fcalls,         \* invocations of trace factories: factory and logger given
    config,         \* package variable config (shared-transport variant)
    sharedTransport,\* package variable sharedTransport
    onceDone,       \* configOnce has run its function
    setLog,         \* SetConfig calls so far: configuration given, error returned
    returned,       \* NewClient has returned
    \* --- Client.Do ---
    wire,           \* requests handed to the underlying http.Client, in order
    lastDo,         \* the latest Do call: its inputs and what it returned
    ndo             \* Do calls so far

tokVars == <<key, currentToken, expiresAt, readers, writer, pc, now, res,
             pending, calls, snap, seen, signed, cache0>>

KeyID == "ABC123"
TeamID == "TEAM1"

NoRes == [kind |-> "none", tok |-> EmptyStr, err |-> NoErr, racy |-> FALSE]
NoCache == [tok |-> EmptyStr, exp |-> ZeroTime]

\* A string read while another goroutine is storing it: the data pointer of
\* one value with the length of the other.
Torn(old, new) == <<old, new>>
IsWhole(tok) == Len(tok) = 3

\* The JWTToken with key and team identifiers in each other's place.
NewJWT_Swapped(t) ==
    [Header |-> [Alg |-> "ES256", Kid |-> TeamID],
     Payload |-> [Issuer |-> KeyID, IssuedAt |-> Unix(t)]]

\* The JWTToken GetToken builds for a call at instant t.
NewJWT(t) ==
    [Header |-> [Alg |-> "ES256", Kid |-> KeyID],
     Payload |-> [Issuer |-> TeamID, IssuedAt |-> Unix(t)]]

\* An expiry without the time-to-live.
Expiry_Now(t) == t

\* The instant a mint at t expires: now.Add(p.tokenTTL).
Expiry(t) == t + TokenTTL

\* The caches a behaviour starts with: the empty one NewProvider leaves, or
\* the entry an earlier GetToken(0) of a provider with a P-256 key stored.
InitialCaches(k) ==
    {NoCache} \cup
    IF k = "P256"
    THEN {[tok |-> SignedString(NewJWT(0), [kind |-> "ok", sig |-> 1, err |-> NoErr]).tok,
           exp |-> Expiry(0)]}
    ELSE {}

\* NewProvider: empty cache, zero expiry, unlocked mutex.
InitProvider ==
    /\ key \in KeyKinds
    /\ cache0 \in InitialCaches(key)
    /\ currentToken = cache0.tok
    /\ expiresAt = cache0.exp
    /\ readers = {}
    /\ writer = 0
    /\ pc = [p \in Procs |-> "idle"]
    /\ now = [p \in Procs |-> 0]
    /\ res = [p \in Procs |-> NoRes]
    /\ pending = EmptyStr
    /\ calls = 0
    /\ snap = [p \in Procs |-> NoCache]
    /\ seen = [p \in Procs |-> NoCache]
    /\ signed = [p \in Procs |-> 0]

\* A cache entry is live at instant t: it holds a token and t lies before
\* its expiry.  (The notion the observations below are recorded with.)
Unexpired(tok, exp, t) == tok # EmptyStr /\ t < exp

\* Variants of the validity test: the expiry instant itself counted as valid,
\* and the comparison turned round.
Valid_Inclusive(tok, exp, t) == tok # EmptyStr /\ t <= exp
Valid_After(tok, exp, t) == tok # EmptyStr /\ exp < t
Valid_NonEmpty(tok, exp, t) == tok # EmptyStr

\* p.currentToken != "" && now.Before(p.expiresAt)
Valid(tok, exp, t) == tok # EmptyStr /\ t < exp

\* Some goroutine is in the middle of the store `p.currentToken = newToken`.
MidStore == \E q \in Procs : pc[q] = "storing"

\* What a read of p.currentToken without the lock can yield: the field, or,
\* while another goroutine is storing a new value, the old value, the new
\* one or a mixture of the two.
UnlockedRead ==
    IF MidStore
    THEN {currentToken, pending, Torn(currentToken, pending)}
    ELSE {currentToken}

\* A call of GetToken(t) begins.
Call(p, t) ==
    /\ pc[p] \in {"idle", "done"}
    /\ calls < MaxCalls
    /\ calls' = calls + 1
    /\ pc' = [pc EXCEPT ![p] = "rlock"]
    /\ now' = [now EXCEPT ![p] = t]
    /\ res' = [res EXCEPT ![p] = NoRes]
    /\ snap' = [snap EXCEPT ![p] =
                  IF Unexpired(currentToken, expiresAt, t) /\ ~MidStore
                  THEN [tok |-> currentToken, exp |-> expiresAt] ELSE NoCache]
    /\ seen' = [seen EXCEPT ![p] = NoCache]
    /\ signed' = [signed EXCEPT ![p] = 0]
    /\ UNCHANGED <<key, currentToken, expiresAt, readers, writer, pending, cache0>>

\* p.mu.RLock()
RLock(p) ==
    /\ pc[p] = "rlock"
    /\ writer = 0
    /\ readers' = readers \cup {p}
    /\ pc' = [pc EXCEPT ![p] = "fast"]
    /\ UNCHANGED <<key, currentToken, expiresAt, writer, now, res, pending,
                   calls, snap, seen, signed, cache0>>

\* The fast-path check that keeps the read lock on the way to the write
\* lock.
FastCheck_KeepsRLock(p) ==
    /\ pc[p] = "fast"
    /\ readers' = IF Valid(currentToken, expiresAt, now[p]) THEN readers \ {p}
                  ELSE readers
    /\ pc' = [pc EXCEPT ![p] = IF Valid(currentToken, expiresAt, now[p])
                               THEN "fastret" ELSE "lock"]
    /\ UNCHANGED <<key, currentToken, expiresAt, writer, now, res, pending,
                   calls, snap, seen, signed, cache0>>

\* The fast-path check under the read lock, then p.mu.RUnlock() on either
\* branch.
FastCheck(p) ==
    /\ pc[p] = "fast"
    /\ readers' = readers \ {p}
    /\ pc' = [pc EXCEPT ![p] = IF Valid(currentToken, expiresAt, now[p])
                               THEN "fastret" ELSE "lock"]
    /\ UNCHANGED <<key, currentToken, expiresAt, writer, now, res, pending,
                   calls, snap, seen, signed, cache0>>

\* `return p.currentToken, nil` of the fast path, after RUnlock.
FastReturn(p) ==
    /\ pc[p] = "fastret"
    /\ \E v \in UnlockedRead :
          res' = [res EXCEPT ![p] = [kind |-> "ok", tok |-> v, err |-> NoErr,
                                     racy |-> MidStore]]
    /\ pc' = [pc EXCEPT ![p] = "done"]
    /\ UNCHANGED <<key, currentToken, expiresAt, readers, writer, now, pending,
                   calls, snap, seen, signed, cache0>>

\* A Lock that does not wait for the readers to leave.
Lock_IgnoresReaders(p) ==
    /\ pc[p] = "lock"
    /\ writer = 0
    /\ writer' = p
    /\ pc' = [pc EXCEPT ![p] = "recheck"]
    /\ UNCHANGED <<key, currentToken, expiresAt, readers, now, res, pending,
                   calls, snap, seen, signed, cache0>>

\* p.mu.Lock(); the deferred Unlock is the action Unlock.
Lock(p) ==
    /\ pc[p] = "lock"
    /\ writer = 0
    /\ readers = {}
    /\ writer' = p
    /\ pc' = [pc EXCEPT ![p] = "recheck"]
    /\ UNCHANGED <<key, currentToken, expiresAt, readers, now, res, pending,
                   calls, snap, seen, signed, cache0>>

\* The write-locked section without its re-check: it goes on to sign
\* whatever the cache holds.
ReCheck_Skipped(p) ==
    /\ pc[p] = "recheck"
    /\ seen' = [seen EXCEPT ![p] = [tok |-> currentToken, exp |-> expiresAt]]
    /\ pc' = [pc EXCEPT ![p] = "sign"]
    /\ UNCHANGED <<key, currentToken, expiresAt, readers, writer, now, res, pending,
                   calls, snap, signed, cache0>>

\* The re-check after acquiring the write lock.
ReCheck(p) ==
    /\ pc[p] = "recheck"
    /\ seen' = [seen EXCEPT ![p] = [tok |-> currentToken, exp |-> expiresAt]]
    /\ IF Valid(currentToken, expiresAt, now[p])
       THEN /\ res' = [res EXCEPT ![p] = [kind |-> "ok", tok |-> currentToken,
                                           err |-> NoErr, racy |-> FALSE]]
            /\ pc' = [pc EXCEPT ![p] = "unlock"]
       ELSE /\ pc' = [pc EXCEPT ![p] = "sign"]
            /\ UNCHANGED res
    /\ UNCHANGED <<key, currentToken, expiresAt, readers, writer, now, pending,
                   calls, snap, signed, cache0>>

\* A failing SignedString whose result is assigned to the cache before the
\* error is looked at.
SignFail_Partial(p, r) ==
    /\ res' = [res EXCEPT ![p] = [kind |-> "err", tok |-> EmptyStr,
                                   err |-> Wrap("failed to sign JWT token", r.err),
                                   racy |-> FALSE]]
    /\ pc' = [pc EXCEPT ![p] = "unlock"]
    /\ currentToken' = r.tok
    /\ expiresAt' = Expiry(now[p])
    /\ UNCHANGED pending

\* jwtToken.SignedString failed: `return "", fmt.Errorf(...)`.
SignFail(p, r) ==
    /\ res' = [res EXCEPT ![p] = [kind |-> "err", tok |-> EmptyStr,
                                   err |-> Wrap("failed to sign JWT token", r.err),
                                   racy |-> FALSE]]
    /\ pc' = [pc EXCEPT ![p] = "unlock"]
    /\ UNCHANGED <<currentToken, expiresAt, pending>>

\* jwtToken.SignedString returned newToken.
SignOk(p, r) ==
    /\ pending' = r.tok
    /\ pc' = [pc EXCEPT ![p] = "store"]
    /\ UNCHANGED <<currentToken, expiresAt, res>>

\* The signer panicked: the deferred Unlock runs while the panic unwinds.
SignPanic(p) ==
    /\ res' = [res EXCEPT ![p] = [kind |-> "panic", tok |-> EmptyStr, err |-> NoErr,
                                   racy |-> FALSE]]
    /\ pc' = [pc EXCEPT ![p] = "unlock"]
    /\ UNCHANGED <<currentToken, expiresAt, pending>>

\* Building the JWT and calling jwtToken.SignedString(p.signer).
Sign(p) ==
    /\ pc[p] = "sign"
    /\ signed' = [signed EXCEPT ![p] = signed[p] + 1]
    /\ \E out \in SignOutcomes(key) :
          IF out.kind = "panic" THEN SignPanic(p)
          ELSE LET r == SignedString(NewJWT(now[p]), out)
               IN  IF r.err # NoErr THEN SignFail(p, r) ELSE SignOk(p, r)
    /\ UNCHANGED <<key, readers, writer, now, calls, snap, seen, cache0>>

\* The store `p.currentToken = newToken` begins: the string's words are
\* written one after the other.
StoreBegin(p) ==
    /\ pc[p] = "store"
    /\ pc' = [pc EXCEPT ![p] = "storing"]
    /\ snap' = [q \in Procs |-> IF q = p THEN snap[q] ELSE NoCache]
    /\ UNCHANGED <<key, currentToken, expiresAt, readers, writer, now, res,
                   pending, calls, seen, signed, cache0>>

\* The store completes; p.expiresAt = now.Add(p.tokenTTL).
StoreEnd(p) ==
    /\ pc[p] = "storing"
    /\ currentToken' = pending
    /\ expiresAt' = Expiry(now[p])
    /\ pending' = EmptyStr
    /\ pc' = [pc EXCEPT ![p] = "log"]
    /\ snap' = [q \in Procs |-> IF q = p THEN snap[q] ELSE NoCache]
    /\ UNCHANGED <<key, readers, writer, now, res, calls, seen, signed, cache0>>

\* p.logger.Info("Token generated successfully", ...): the record goes to
\* the logger's handler; then `return p.currentToken, nil`.
LogInfo(p) ==
    /\ pc[p] = "log"
    /\ res' = [res EXCEPT ![p] = [kind |-> "ok", tok |-> currentToken, err |-> NoErr,
                                   racy |-> FALSE]]
    /\ pc' = [pc EXCEPT ![p] = "unlock"]
    /\ UNCHANGED <<key, currentToken, expiresAt, readers, writer, now, pending,
                   calls, snap, seen, signed, cache0>>

\* The deferred p.mu.Unlock(), and the call returns.
Unlock(p) ==
    /\ pc[p] = "unlock"
    /\ writer' = IF writer = p THEN 0 ELSE writer
    /\ pc' = [pc EXCEPT ![p] = "done"]
    /\ seen' = [seen EXCEPT ![p] = NoCache]
    /\ UNCHANGED <<key, currentToken, expiresAt, readers, now, res, pending,
                   calls, snap, signed, cache0>>


(***************************************************************************)
(* Package appleapi: the client and its options.                            *)
(*                                                                          *)
(* The repository holds two variants of the client.  The "ordered" one      *)
(* (client.go) takes an HTTPClientInitializer and options that carry an     *)
(* OptionOrder; the "shared" one builds one process-wide transport under a  *)
(* sync.Once and has options that return whether they want to be re-applied.*)
(* Loggers, transports, timeouts and trace factories are named by strings;  *)
(* "nil" is the nil pointer or nil function result.                         *)
(***************************************************************************)
clientVars == <<variant, args, opts, client, newErr, applied, fcalls,
                config, sharedTransport, onceDone, setLog, returned>>
doVars == <<wire, lastDo, ndo>>

\* OptionOrder: iota + 1.
Development == 1
Logger == 2
Transport == 3
ClientTimeout == 4
ClientTrace == 5

DiscardLogger == "discard"      \* slog.New(slog.NewTextHandler(io.Discard, nil))
Loggers == {"nil", "L1", "L2"}
Transports == {"nil", "T1"}
Timeouts == {"5s"}

\* Trace factories func(*slog.Logger) *httptrace.ClientTrace handed to
\* WithClientTrace: one that binds a trace to whatever logger it is given,
\* one that returns nil, one that returns a trace for the discarding logger
\* only.
Factories == {"bind", "none", "discardOnly"}
NoTrace == [f |-> "nil", logger |-> "nil"]
TraceOf(f, l) ==
    IF f = "bind" \/ (f = "discardOnly" /\ l = DiscardLogger)
    THEN [f |-> f, logger |-> l]
    ELSE NoTrace

\* The options of the ordered variant.  A probe is an option built inside
\* the package with an order of its own, whose function only looks at the
\* client.
WithDevelopment == [kind |-> "dev", order |-> Development, arg |-> ""]
WithLogger(l) == [kind |-> "logger", order |-> Logger, arg |-> l]
WithTransport(tr) == [kind |-> "transport", order |-> Transport, arg |-> tr]
WithClientTimeout(d) == [kind |-> "timeout", order |-> ClientTimeout, arg |-> d]
WithClientTrace(f) == [kind |-> "trace", order |-> ClientTrace, arg |-> f]
Probe(k) == [kind |-> "probe", order |-> k, arg |-> ""]

OrderedOptions ==
    {WithDevelopment} \cup {WithLogger(l) : l \in Loggers}
    \cup {WithTransport(tr) : tr \in Transports}
    \cup {WithClientTimeout(d) : d \in Timeouts}
    \cup {WithClientTrace(f) : f \in Factories}
    \cup {Probe(0), Probe(ClientTrace + 1)}

\* The options of the shared variant: closures without an order.
SharedOptions ==
    {WithDevelopment} \cup {WithLogger(l) : l \in Loggers}
    \cup {WithTransport(tr) : tr \in Transports}
    \cup {WithClientTrace(f) : f \in Factories}

OptionLists(U) == UNION {[1..n -> U] : n \in 0..MaxOpts}

NilClient == [Development |-> FALSE, Logger |-> "nil", Transport |-> "nil",
              Timeout |-> "nil", Trace |-> NoTrace, isNil |-> TRUE]

\* Option functions that store their argument without looking at it.
ApplyOption_NoNilCheck(acc, o) ==
    LET c == acc.c
        tr == TraceOf(o.arg, c.Logger)
        c1 == CASE o.kind = "dev" -> [c EXCEPT !.Development = TRUE]
                [] o.kind = "logger" -> [c EXCEPT !.Logger = o.arg]
                [] o.kind = "transport" -> [c EXCEPT !.Transport = o.arg]
                [] o.kind = "timeout" -> [c EXCEPT !.Timeout = o.arg]
                [] o.kind = "trace" -> [c EXCEPT !.Trace = tr]
                [] OTHER -> c
    IN  [c |-> c1,
         applied |-> Append(acc.applied, [opt |-> o, dev |-> c.Development]),
         fcalls |-> IF o.kind = "trace"
                    THEN Append(acc.fcalls, [f |-> o.arg, logger |-> c.Logger])
                    ELSE acc.fcalls]

\* What the option functions do to the client.  acc carries the client and
\* the two logs; the applied entry records c.Development as the function
\* found it.
ApplyOption(acc, o) ==
    LET c == acc.c
        tr == TraceOf(o.arg, c.Logger)
        c1 == CASE o.kind = "dev" -> [c EXCEPT !.Development = TRUE]
                [] o.kind = "logger" ->
                       IF o.arg # "nil" THEN [c EXCEPT !.Logger = o.arg] ELSE c
                [] o.kind = "transport" ->
                       IF o.arg # "nil" THEN [c EXCEPT !.Transport = o.arg] ELSE c
                [] o.kind = "timeout" -> [c EXCEPT !.Timeout = o.arg]
                [] o.kind = "trace" ->
                       IF tr # NoTrace THEN [c EXCEPT !.Trace = tr] ELSE c
                [] OTHER -> c
    IN  [c |-> c1,
         applied |-> Append(acc.applied, [opt |-> o, dev |-> c.Development]),
         fcalls |-> IF o.kind = "trace"
                    THEN Append(acc.fcalls, [f |-> o.arg, logger |-> c.Logger])
                    ELSE acc.fcalls]

RECURSIVE ApplyAll(_, _)
ApplyAll(acc, os) ==
    IF os = << >> THEN acc ELSE ApplyAll(ApplyOption(acc, Head(os)), Tail(os))

\* The comparison handed to sort.Slice, and its opposite.
Less_Descending(a, b) == a.order > b.order
Less(a, b) == a.order < b.order

\* sort.Slice on a slice of at most 12 elements: insertion sort.
Swap(s, i, j) == [s EXCEPT ![i] = s[j], ![j] = s[i]]

RECURSIVE Sift(_, _)
Sift(s, j) ==
    IF j > 1 /\ Less(s[j], s[j - 1]) THEN Sift(Swap(s, j, j - 1), j - 1) ELSE s

RECURSIVE InsertionSort(_, _)
InsertionSort(s, i) ==
    IF i > Len(s) THEN s ELSE InsertionSort(Sift(s, i), i + 1)

SortSlice(s) == InsertionSort(s, 2)

\* The initializers: DefaultHTTPClientInitializer, ConfigureHTTPClientInitializer
\* with the default configuration, and one whose HTTP/2 configuration fails.
Initializers == {"default", "configure", "failing"}
InitializerResult(i) ==
    CASE i = "default" -> [Transport |-> "Tdefault", Timeout |-> "0s", err |-> NoErr]
      [] i = "configure" -> [Transport |-> "Tconfigure", Timeout |-> "60s", err |-> NoErr]
      [] OTHER -> [Transport |-> "nil", Timeout |-> "nil", err |-> <<"http2 configure failed">>]

NewAcc(tr, timeout) ==
    [c |-> [Development |-> FALSE, Logger |-> DiscardLogger, Transport |-> tr,
            Timeout |-> timeout, Trace |-> NoTrace, isNil |-> FALSE],
     applied |-> << >>, fcalls |-> << >>]

\* NewClient running the options before it looks at the initializer's error.
NewClientOrdered_OptionsFirst(i, as) ==
    LET r == InitializerResult(i)
        sorted == SortSlice(as)
        acc == ApplyAll(NewAcc(r.Transport, r.Timeout), sorted)
    IN  [c |-> IF r.err # NoErr THEN NilClient ELSE acc.c, err |-> r.err,
         opts |-> sorted, applied |-> acc.applied, fcalls |-> acc.fcalls]

\* NewClient of the ordered variant, as a function of its arguments.
NewClientOrdered(i, as) ==
    LET r == InitializerResult(i)
        sorted == SortSlice(as)
        acc == ApplyAll(NewAcc(r.Transport, r.Timeout), sorted)
    IN  IF r.err # NoErr
        THEN [c |-> NilClient, err |-> r.err, opts |-> as,
              applied |-> << >>, fcalls |-> << >>]
        ELSE [c |-> acc.c, err |-> NoErr, opts |-> sorted,
              applied |-> acc.applied, fcalls |-> acc.fcalls]

\* opt(nil): what an option of the shared variant returns; with a nil client
\* it touches nothing.
IsDependent(o) == o.kind = "trace"

\* The `last` of NewClient's loop: the last option that reported true.
RECURSIVE LastDependent(_)
LastDependent(os) ==
    IF os = << >> THEN << >>
    ELSE IF IsDependent(os[Len(os)]) THEN <<os[Len(os)]>>
    ELSE LastDependent(SubSeq(os, 1, Len(os) - 1))

\* The option loop of the shared variant and the final `last(c)`.
SharedLoop(acc, as) == ApplyAll(ApplyAll(acc, as), LastDependent(as))

\* HTTPTimeout of the configurations in use.
Configs == {"defaultConfig", "cfgA"}
HTTPTimeoutOf(cfg) == IF cfg = "defaultConfig" THEN "60s" ELSE "10s"

\* The package variables config, sharedTransport and configOnce as one value.
NoGlobals == [config |-> "nil", sharedTransport |-> "nil", onceDone |-> FALSE]
Globals == [config |-> config, sharedTransport |-> sharedTransport,
            onceDone |-> onceDone]

\* SetConfig: the function handed to configOnce.Do runs on the first call only
\* and initErr is local to the call.  built says whether newTransport succeeds
\* when it runs.
SetConfigResult(g, cfg, built) ==
    IF g.onceDone THEN [g |-> g, err |-> NoErr]
    ELSE IF built
    THEN [g |-> [config |-> cfg, sharedTransport |-> "Tshared", onceDone |-> TRUE],
          err |-> NoErr]
    ELSE [g |-> [config |-> cfg, sharedTransport |-> "nil", onceDone |-> TRUE],
          err |-> <<"http2 configure failed">>]

\* NewClient of the shared variant, as a function of the package variables
\* and its arguments.
NewClientShared(g, as, built) ==
    LET s == IF g.sharedTransport = "nil"
             THEN SetConfigResult(g, "defaultConfig", built)
             ELSE [g |-> g, err |-> NoErr]
        acc == SharedLoop(NewAcc(s.g.sharedTransport, HTTPTimeoutOf(s.g.config)), as)
    IN  IF s.err # NoErr
        THEN [c |-> NilClient, err |-> s.err, opts |-> as, g |-> s.g,
              applied |-> << >>, fcalls |-> << >>]
        ELSE [c |-> acc.c, err |-> NoErr, opts |-> as, g |-> s.g,
              applied |-> acc.applied, fcalls |-> acc.fcalls]

\* Before any call: no client, no package state.
InitClient ==
    /\ variant \in {"ordered", "shared"}
    /\ args = << >>
    /\ opts = << >>
    /\ client = NilClient
    /\ newErr = NoErr
    /\ applied = << >>
    /\ fcalls = << >>
    /\ config = NoGlobals.config
    /\ sharedTransport = NoGlobals.sharedTransport
    /\ onceDone = NoGlobals.onceDone
    /\ setLog = << >>
    /\ returned = FALSE

\* A program built against the ordered variant calls NewClient(init, host, tp, opts...).
CallNewClientOrdered ==
    /\ variant = "ordered"
    /\ ~returned
    /\ \E i \in Initializers, as \in OptionLists(OrderedOptions) :
       \E r \in {NewClientOrdered(i, as)} :
          /\ returned' = TRUE
          /\ args' = as
          /\ opts' = r.opts
          /\ client' = r.c
          /\ newErr' = r.err
          /\ applied' = r.applied
          /\ fcalls' = r.fcalls
          /\ UNCHANGED <<variant, config, sharedTransport, onceDone, setLog>>

\* A program built against the shared variant calls NewClient(host, tp, opts...).
CallNewClientShared ==
    /\ variant = "shared"
    /\ ~returned
    /\ \E as \in OptionLists(SharedOptions), built \in BOOLEAN :
       \E r \in {NewClientShared(Globals, as, built)} :
          /\ returned' = TRUE
          /\ args' = as
          /\ opts' = r.opts
          /\ client' = r.c
          /\ newErr' = r.err
          /\ applied' = r.applied
          /\ fcalls' = r.fcalls
          /\ config' = r.g.config
          /\ sharedTransport' = r.g.sharedTransport
          /\ onceDone' = r.g.onceDone
          /\ UNCHANGED <<variant, setLog>>

\* The program calls SetConfig(cfg), before or after NewClient.
CallSetConfig(cfg, built) ==
    /\ variant = "shared"
    /\ Len(setLog) < MaxSetConfig
    /\ \E r \in {SetConfigResult(Globals, cfg, built)} :
          /\ setLog' = Append(setLog, [cfg |-> cfg, err |-> r.err])
          /\ config' = r.g.config
          /\ sharedTransport' = r.g.sharedTransport
          /\ onceDone' = r.g.onceDone
    /\ UNCHANGED <<variant, args, opts, client, newErr, applied, fcalls, returned>>

(***************************************************************************)
(* Client.Do.  The token provider is the token.Provider interface: what its *)
(* GetToken returns is an input of the call, as is what the underlying      *)
(* http.Client answers.  A request is its Authorization header values and   *)
(* the trace bound to its context.                                          *)
(***************************************************************************)
Tokens == {"tokA", "tokB", ""}
TokenOutcomes ==
    {[tok |-> t, err |-> NoErr] : t \in Tokens}
    \cup {[tok |-> "", err |-> <<"token error">>],
          [tok |-> "tokA", err |-> <<"token error">>]}
RoundTripOutcomes ==
    {[resp |-> "200", err |-> NoErr], [resp |-> "401", err |-> NoErr],
     [resp |-> "nil", err |-> <<"dial failed">>]}
AuthHeaders == {<< >>, <<"Basic old">>, <<"Bearer old", "Basic old">>}

\* The authorization scheme each variant writes.
Scheme(v) == IF v = "ordered" THEN "Bearer " ELSE "bearer "

\* http.Header.Add and http.Header.Set on one key.
HeaderAdd(h, v) == Append(h, v)
HeaderSet(h, v) == <<v>>

\* The calls one Do makes, in their order: the trace is bound first if the
\* client has one, GetToken is called, and only a call that got a token
\* sets the header and reaches the HTTP client.
DoSteps_TraceLast(c, tp) ==
    <<"GetToken">>
    \o (IF tp.err # NoErr THEN << >> ELSE <<"Header.Set", "HTTPClient.Do">>)
    \o (IF c.Trace # NoTrace THEN <<"WithClientTrace">> ELSE << >>)
DoSteps(c, tp) ==
    (IF c.Trace # NoTrace THEN <<"WithClientTrace">> ELSE << >>)
    \o <<"GetToken">>
    \o (IF tp.err # NoErr THEN << >> ELSE <<"Header.Set", "HTTPClient.Do">>)

\* Client.Do as a function of the client, the request's Authorization values
\* and the two outcomes: the requests handed to c.HTTPClient.Do (none or
\* one) and what Do returns.
DoResult_IgnoreTokenError(v, c, h, tp, rt) ==
    [sent |-> <<[auth |-> HeaderSet(h, Scheme(v) \o tp.tok), trace |-> c.Trace]>>,
     resp |-> rt.resp, err |-> rt.err, steps |-> DoSteps(c, tp)]
DoResult(v, c, h, tp, rt) ==
    IF tp.err # NoErr
    THEN [sent |-> << >>, resp |-> "nil", err |-> tp.err, steps |-> DoSteps(c, tp)]
    ELSE [sent |-> <<[auth |-> HeaderSet(h, Scheme(v) \o tp.tok),
                      trace |-> c.Trace]>>,
          resp |-> rt.resp, err |-> rt.err, steps |-> DoSteps(c, tp)]

NoDo == [h |-> << >>, tp |-> [tok |-> "", err |-> NoErr],
         rt |-> [resp |-> "nil", err |-> NoErr],
         resp |-> "nil", err |-> NoErr, sent |-> FALSE, steps |-> << >>]

InitDo ==
    /\ wire = << >>
    /\ lastDo = NoDo
    /\ ndo = 0

\* One c.Do(req) call on the client NewClient returned.  wire keeps, with
\* each request handed over, the call it came from and the token that call
\* got.
Do(h, tp, rt) ==
    /\ returned
    /\ ~client.isNil
    /\ ndo < MaxDo
    /\ ndo' = ndo + 1
    /\ \E r \in {DoResult(variant, client, h, tp, rt)} :
          /\ wire' = wire \o [k \in 1..Len(r.sent) |->
                                [req |-> r.sent[k], call |-> ndo + 1,
                                 token |-> tp.tok]]
          /\ lastDo' = [h |-> h, tp |-> tp, rt |-> rt, resp |-> r.resp,
                        err |-> r.err, sent |-> r.sent # << >>,
                        steps |-> r.steps]

(***************************************************************************)
(* The shared-transport variant under concurrent callers.  Each goroutine   *)
(* makes one call, SetConfig(cfg) or NewClient(host, tp, opts...), and the  *)
(* calls advance one shared-memory access at a time.  configOnce is a       *)
(* sync.Once: one caller runs the function, callers arriving meanwhile      *)
(* wait, and callers arriving afterwards return at once.                    *)
(***************************************************************************)
VARIABLES
    gpc,            \* where each goroutine is in its call
    gop,            \* the call each goroutine makes
    gerr,           \* the error SetConfig hands back to each goroutine
    gracy,          \* the goroutine saw sharedTransport set before configOnce was done
    gres,           \* what each goroutine's call returned
    builds,         \* executions of newTransport
    onceBusy        \* the goroutine running configOnce's function, or 0

goVars == <<gpc, gop, gerr, gracy, gres, builds, onceBusy>>
callVars == <<variant, args, opts, client, newErr, applied, fcalls, setLog,
              returned>>

Goroutines == 1..MaxGoroutines

\* The option lists the concurrent NewClient calls pass.
GoOptions == {<< >>, <<WithTransport("T1")>>}
GoCalls ==
    {[kind |-> "SetConfig", cfg |-> c, opts |-> << >>] : c \in Configs}
    \cup {[kind |-> "NewClient", cfg |-> "defaultConfig", opts |-> o] :
              o \in GoOptions}
NoCall == [kind |-> "none", cfg |-> "nil", opts |-> << >>]
NoReturn == [kind |-> "none", err |-> NoErr, c |-> NilClient]

\* The transport instance the n-th further execution of newTransport makes.
BuiltTransport(n) == IF n = 0 THEN "Tshared" ELSE "Tshared2"

InitGoroutines ==
    /\ gpc = [g \in Goroutines |-> "idle"]
    /\ gop = [g \in Goroutines |-> NoCall]
    /\ gerr = [g \in Goroutines |-> NoErr]
    /\ gracy = [g \in Goroutines |-> FALSE]
    /\ gres = [g \in Goroutines |-> NoReturn]
    /\ builds = 0
    /\ onceBusy = 0

\* A goroutine starts its call.  NewClient begins with the test
\* `sharedTransport == nil`, SetConfig with configOnce.Do.
GoCall(g, op) ==
    /\ gpc[g] = "idle"
    /\ gop' = [gop EXCEPT ![g] = op]
    /\ gpc' = [gpc EXCEPT ![g] = IF op.kind = "SetConfig" THEN "once" ELSE "check"]
    /\ UNCHANGED <<gerr, gracy, gres, builds, onceBusy, config,
                   sharedTransport, onceDone>>

\* NewClient: if sharedTransport == nil { SetConfig(defaultConfig) }.  The
\* read is not ordered with the store inside configOnce.
CheckShared(g) ==
    /\ gpc[g] = "check"
    /\ gpc' = [gpc EXCEPT ![g] = IF sharedTransport = "nil" THEN "once" ELSE "make"]
    /\ gracy' = [gracy EXCEPT ![g] = sharedTransport # "nil" /\ ~onceDone]
    /\ UNCHANGED <<gop, gerr, gres, builds, onceBusy, config, sharedTransport,
                   onceDone>>

\* configOnce.Do when the function has already run: return without running it.
OnceSkip(g) ==
    /\ gpc[g] = "once"
    /\ onceDone
    /\ gpc' = [gpc EXCEPT ![g] = "after"]
    /\ UNCHANGED <<gop, gerr, gracy, gres, builds, onceBusy, config,
                   sharedTransport, onceDone>>

\* Whether configOnce lets a caller run the function.
OnceMayRun_Always == TRUE
OnceMayRun == ~onceDone /\ onceBusy = 0

\* configOnce.Do for the first caller: it runs the function.
OnceEnter(g) ==
    /\ gpc[g] = "once"
    /\ OnceMayRun
    /\ onceBusy' = g
    /\ gpc' = [gpc EXCEPT ![g] = "setcfg"]
    /\ UNCHANGED <<gop, gerr, gracy, gres, builds, config, sharedTransport,
                   onceDone>>

\* config = cfg
StoreConfig(g) ==
    /\ gpc[g] = "setcfg"
    /\ config' = gop[g].cfg
    /\ gpc' = [gpc EXCEPT ![g] = "build"]
    /\ UNCHANGED <<gop, gerr, gracy, gres, builds, onceBusy, sharedTransport,
                   onceDone>>

\* tr, _, err := newTransport(); on error initErr = err, otherwise
\* sharedTransport = tr.
BuildShared(g) ==
    /\ gpc[g] = "build"
    /\ builds' = builds + 1
    /\ gpc' = [gpc EXCEPT ![g] = "leave"]
    /\ \E built \in BOOLEAN :
          IF built
          THEN /\ sharedTransport' = BuiltTransport(builds)
               /\ gerr' = gerr
          ELSE /\ gerr' = [gerr EXCEPT ![g] = <<"http2 configure failed">>]
               /\ sharedTransport' = sharedTransport
    /\ UNCHANGED <<gop, gracy, gres, onceBusy, config, onceDone>>

\* The function returns; configOnce marks itself done and lets waiters go.
OnceLeave(g) ==
    /\ gpc[g] = "leave"
    /\ onceDone' = TRUE
    /\ onceBusy' = 0
    /\ gpc' = [gpc EXCEPT ![g] = "after"]
    /\ UNCHANGED <<gop, gerr, gracy, gres, builds, config, sharedTransport>>

\* SetConfig returns initErr: to its caller, or to NewClient, which returns
\* nil and the error if there is one.
SetConfigReturn(g) ==
    /\ gpc[g] = "after"
    /\ IF gop[g].kind = "NewClient" /\ gerr[g] = NoErr
       THEN /\ gpc' = [gpc EXCEPT ![g] = "make"]
            /\ gres' = gres
       ELSE /\ gpc' = [gpc EXCEPT ![g] = "done"]
            /\ gres' = [gres EXCEPT ![g] =
                           [kind |-> gop[g].kind, err |-> gerr[g], c |-> NilClient]]
    /\ UNCHANGED <<gop, gerr, gracy, builds, onceBusy, config, sharedTransport,
                   onceDone>>

\* What an unordered read of config can yield: the stores of the function
\* may become visible in either order.
ConfigSeen(g) == IF gracy[g] THEN {config, "nil"} ELSE {config}

\* A NewClient whose transport option is stored in the package variable
\* instead of the client.
MakeClient_SetsShared(g) ==
    /\ gpc[g] = "make"
    /\ gpc' = [gpc EXCEPT ![g] = "done"]
    /\ \E cfg \in ConfigSeen(g) :
          gres' = [gres EXCEPT ![g] =
              IF cfg = "nil"
              THEN [kind |-> "panic", err |-> NoErr, c |-> NilClient]
              ELSE [kind |-> "NewClient", err |-> NoErr,
                    c |-> SharedLoop(NewAcc(sharedTransport, HTTPTimeoutOf(cfg)),
                                     gop[g].opts).c]]
    /\ sharedTransport' = IF gop[g].opts = << >> THEN sharedTransport
                          ELSE gop[g].opts[1].arg
    /\ UNCHANGED <<gop, gerr, gracy, builds, onceBusy, config, onceDone>>

\* NewClient builds the client from sharedTransport and config.HTTPTimeout,
\* applies the options and returns it; config.HTTPTimeout on a nil config
\* is a nil dereference.
MakeClient(g) ==
    /\ gpc[g] = "make"
    /\ gpc' = [gpc EXCEPT ![g] = "done"]
    /\ \E cfg \in ConfigSeen(g) :
          gres' = [gres EXCEPT ![g] =
              IF cfg = "nil"
              THEN [kind |-> "panic", err |-> NoErr, c |-> NilClient]
              ELSE [kind |-> "NewClient", err |-> NoErr,
                    c |-> SharedLoop(NewAcc(sharedTransport, HTTPTimeoutOf(cfg)),
                                     gop[g].opts).c]]
    /\ UNCHANGED <<gop, gerr, gracy, builds, onceBusy, config, sharedTransport,
                   onceDone>>

(***************************************************************************)
(* Configurations and the transports built from them (config.go and the    *)
(* initializers of client.go).  A *tls.Config is an object on a heap; its   *)
(* slice fields are a backing array and a length, so that two objects can   *)
(* share an array.  tls.Config.Clone copies the fields of the object, and   *)
(* with them the slice headers, not the arrays.                             *)
(***************************************************************************)
VARIABLES
    objs,           \* the tls.Config objects allocated so far
    arrs,           \* the backing arrays allocated so far
    defaultConfig,  \* the package variable defaultConfig (config.go)
    callerCfg,      \* the HTTPConfig the caller holds, or NoConfig
    returnedDefault,\* what the latest DefaultConfig() returned, as values
    transport,      \* the transport an initializer built, or NoTransport
    buildSnap,      \* the caller's and the transport's TLS settings at the build
    hs,             \* the latest TLS handshake of the transport
    edits           \* modifications made by the caller

cfgVars == <<objs, arrs, defaultConfig, callerCfg, returnedDefault, transport,
             buildSnap, hs, edits>>

\* crypto/tls version numbers; a MinVersion of 0 means TLS 1.2 for a client,
\* a MaxVersion of 0 means TLS 1.3.
VersionTLS12 == 771
VersionTLS13 == 772

NilSlice == [arr |-> 0, len |-> 0]
ZeroTLS == [MinVersion |-> 0, MaxVersion |-> 0, NextProtos |-> NilSlice,
            Certificates |-> NilSlice]

\* The elements a slice shows, in the heap h = [objs, arrs].
Elems(h, sl) == IF sl.arr = 0 THEN << >> ELSE SubSeq(h.arrs[sl.arr], 1, sl.len)

\* A tls.Config as values; 0 is the nil pointer.
DerefTLS(h, id) ==
    IF id = 0
    THEN [isNil |-> TRUE, MinVersion |-> 0, MaxVersion |-> 0,
          NextProtos |-> << >>, Certificates |-> << >>]
    ELSE [isNil |-> FALSE, MinVersion |-> h.objs[id].MinVersion,
          MaxVersion |-> h.objs[id].MaxVersion,
          NextProtos |-> Elems(h, h.objs[id].NextProtos),
          Certificates |-> Elems(h, h.objs[id].Certificates)]

\* An HTTPConfig as values.
DerefConfig(h, c) ==
    [HTTPTimeout |-> c.HTTPTimeout, MaxConnsPerHost |-> c.MaxConnsPerHost,
     TLSConfig |-> DerefTLS(h, c.TLSConfig)]

Heap == [objs |-> objs, arrs |-> arrs]

\* &tls.Config{...}: a new object.
NewTLS(h, v) == [h |-> [h EXCEPT !.objs = Append(h.objs, v)], id |-> Len(h.objs) + 1]

\* make/literal: a new array holding es, with spare room beyond them.
NewSlice(h, es, spare) ==
    IF es = << >> /\ spare = 0 THEN [h |-> h, sl |-> NilSlice]
    ELSE [h |-> [h EXCEPT !.arrs = Append(h.arrs, es \o [k \in 1..spare |-> ""])],
          sl |-> [arr |-> Len(h.arrs) + 1, len |-> Len(es)]]

\* append(sl, x): in place when the array has room, into a new array
\* otherwise.
AppendSlice(h, sl, x) ==
    IF sl.arr # 0 /\ sl.len < Len(h.arrs[sl.arr])
    THEN [h |-> [h EXCEPT !.arrs[sl.arr][sl.len + 1] = x],
          sl |-> [arr |-> sl.arr, len |-> sl.len + 1]]
    ELSE NewSlice(h, Elems(h, sl) \o <<x>>, 0)

\* (*tls.Config).Clone: a new object with the same field values.
CloneTLS(h, id) == NewTLS(h, h.objs[id])

Contains(es, x) == \E k \in 1..Len(es) : es[k] = x

\* http2.ConfigureTransports(t1) as far as t1.TLSClientConfig goes: a nil
\* config becomes new(tls.Config), "h2" is put in front of NextProtos and
\* "http/1.1" appended unless they are there already.
ConfigureTransports(h, id) ==
    LET a == IF id = 0 THEN NewTLS(h, ZeroTLS) ELSE [h |-> h, id |-> id]
        np == a.h.objs[a.id].NextProtos
        b == IF Contains(Elems(a.h, np), "h2") THEN [h |-> a.h, sl |-> np]
             ELSE NewSlice(a.h, <<"h2">> \o Elems(a.h, np), 0)
        c == IF Contains(Elems(b.h, b.sl), "http/1.1") THEN b
             ELSE AppendSlice(b.h, b.sl, "http/1.1")
    IN  [h |-> [c.h EXCEPT !.objs[a.id].NextProtos = c.sl], id |-> a.id]

NoConfig == [HTTPTimeout |-> 0, MaxConnsPerHost |-> 0, TLSConfig |-> 0,
             from |-> "none"]
NoTransport == [kind |-> "none", tls |-> 0, ForceAttemptHTTP2 |-> FALSE,
                Timeout |-> 0]

\* The values of defaultConfig in config.go (durations in seconds).
DefaultValues ==
    [HTTPTimeout |-> 60, MaxConnsPerHost |-> 30,
     TLSConfig |-> [isNil |-> FALSE, MinVersion |-> VersionTLS13, MaxVersion |-> 0,
                    NextProtos |-> << >>, Certificates |-> << >>]]

\* DefaultConfig(): a copy of the struct with the TLSConfig cloned.
DefaultConfig_Shallow(h, d) ==
    [h |-> h, c |-> [d EXCEPT !.from = "DefaultConfig"]]
DefaultConfig(h, d) ==
    IF d.TLSConfig # 0
    THEN LET t == CloneTLS(h, d.TLSConfig)
         IN  [h |-> t.h, c |-> [d EXCEPT !.TLSConfig = t.id, !.from = "DefaultConfig"]]
    ELSE [h |-> h, c |-> [d EXCEPT !.from = "DefaultConfig"]]

\* DefaultHTTPClientInitializer()(): a clone of http.DefaultTransport with
\* TLSClientConfig = &tls.Config{MaxVersion: tls.VersionTLS13} and
\* ForceAttemptHTTP2 = true, in a client without timeout.
DefaultHTTPClientInitializer(h) ==
    LET t == NewTLS(h, [ZeroTLS EXCEPT !.MaxVersion = VersionTLS13])
    IN  [h |-> t.h, err |-> NoErr,
         tr |-> [kind |-> "default", tls |-> t.id, ForceAttemptHTTP2 |-> TRUE,
                 Timeout |-> 0]]

\* ConfigureHTTPClientInitializer(cfg)(): a clone of http.DefaultTransport,
\* cfg.TLSConfig cloned into it when there is one, then
\* http2.ConfigureTransports; h2ok says whether that succeeds.
ConfigureHTTPClientInitializer(h, c, h2ok) ==
    LET t == IF c.TLSConfig # 0 THEN CloneTLS(h, c.TLSConfig) ELSE [h |-> h, id |-> 0]
        u == ConfigureTransports(t.h, t.id)
    IN  IF h2ok
        THEN [h |-> u.h, err |-> NoErr,
              tr |-> [kind |-> "configure", tls |-> u.id, ForceAttemptHTTP2 |-> TRUE,
                      Timeout |-> c.HTTPTimeout]]
        ELSE [h |-> t.h, err |-> <<"http2 configure failed">>, tr |-> NoTransport]

\* The version a handshake settles on with a server that accepts the
\* versions in server, or 0 when there is none in common.
Negotiate(t, server) ==
    LET lo == IF t.MinVersion = 0 THEN VersionTLS12 ELSE t.MinVersion
        hi == IF t.MaxVersion = 0 THEN VersionTLS13 ELSE t.MaxVersion
        common == {v \in server : lo <= v /\ v <= hi}
    IN  IF common = {} THEN 0 ELSE CHOOSE v \in common : \A w \in common : w <= v

\* The TLS settings a caller writes into its own HTTPConfig: none, one
\* without slices, client certificates, and ALPN lists with and without
\* room left in the array.
TLSLiterals ==
    {[isNil |-> TRUE, np |-> << >>, spare |-> 0, certs |-> << >>],
     [isNil |-> FALSE, np |-> << >>, spare |-> 0, certs |-> << >>],
     [isNil |-> FALSE, np |-> << >>, spare |-> 0, certs |-> <<"certA">>],
     [isNil |-> FALSE, np |-> <<"h2", "http/1.1">>, spare |-> 0, certs |-> << >>],
     [isNil |-> FALSE, np |-> <<"h2">>, spare |-> 1, certs |-> << >>],
     [isNil |-> FALSE, np |-> <<"http/1.1">>, spare |-> 0, certs |-> << >>]}

NoHandshake == [server |-> {}, version |-> 0]

InitConfig ==
    /\ objs = <<[ZeroTLS EXCEPT !.MinVersion = VersionTLS13]>>
    /\ arrs = << >>
    /\ defaultConfig = [HTTPTimeout |-> 60, MaxConnsPerHost |-> 30,
                        TLSConfig |-> 1, from |-> "package"]
    /\ callerCfg = NoConfig
    /\ returnedDefault = DerefConfig([objs |-> << >>, arrs |-> << >>], NoConfig)
    /\ transport = NoTransport
    /\ buildSnap = [callerId |-> 0,
                    callerBefore |-> DerefTLS([objs |-> << >>, arrs |-> << >>], 0),
                    callerAfter |-> DerefTLS([objs |-> << >>, arrs |-> << >>], 0),
                    built |-> DerefTLS([objs |-> << >>, arrs |-> << >>], 0)]
    /\ hs = NoHandshake
    /\ edits = 0

\* conf := DefaultConfig()
CallDefaultConfig ==
    /\ Len(objs) < MaxObjs
    /\ \E r \in {DefaultConfig(Heap, defaultConfig)} :
          /\ objs' = r.h.objs
          /\ arrs' = r.h.arrs
          /\ callerCfg' = r.c
          /\ returnedDefault' = DerefConfig(r.h, r.c)
    /\ UNCHANGED <<defaultConfig, transport, buildSnap, hs, edits>>

\* cfg := &HTTPConfig{..., TLSConfig: &tls.Config{...}}
CallerConfig(lit) ==
    /\ callerCfg = NoConfig
    /\ Len(objs) < MaxObjs
    /\ \E n \in {NewSlice(Heap, lit.np, lit.spare)} :
       \E c \in {NewSlice(n.h, lit.certs, 0)} :
       \E t \in {NewTLS(c.h, [ZeroTLS EXCEPT !.NextProtos = n.sl,
                                             !.Certificates = c.sl])} :
          IF lit.isNil
          THEN /\ callerCfg' = [HTTPTimeout |-> 5, MaxConnsPerHost |-> 10,
                                TLSConfig |-> 0, from |-> "caller"]
               /\ UNCHANGED <<objs, arrs>>
          ELSE /\ callerCfg' = [HTTPTimeout |-> 5, MaxConnsPerHost |-> 10,
                                TLSConfig |-> t.id, from |-> "caller"]
               /\ objs' = t.h.objs
               /\ arrs' = t.h.arrs
    /\ UNCHANGED <<defaultConfig, returnedDefault, transport, buildSnap, hs, edits>>

\* cfg.HTTPTimeout = ...; cfg.MaxConnsPerHost = ...
EditScalar ==
    /\ callerCfg # NoConfig
    /\ edits < MaxEdits
    /\ edits' = edits + 1
    /\ callerCfg' = [callerCfg EXCEPT !.HTTPTimeout = 1, !.MaxConnsPerHost = 1]
    /\ UNCHANGED <<objs, arrs, defaultConfig, returnedDefault, transport,
                   buildSnap, hs>>

\* cfg.TLSConfig.MinVersion = v
EditTLSField(v) ==
    /\ callerCfg.TLSConfig # 0
    /\ edits < MaxEdits
    /\ edits' = edits + 1
    /\ objs' = [objs EXCEPT ![callerCfg.TLSConfig].MinVersion = v]
    /\ UNCHANGED <<arrs, defaultConfig, callerCfg, returnedDefault, transport,
                   buildSnap, hs>>

SliceFields == {"NextProtos", "Certificates"}

\* cfg.TLSConfig.NextProtos[0] = ...; cfg.TLSConfig.Certificates[0] = ...
EditElement(f) ==
    /\ callerCfg.TLSConfig # 0
    /\ objs[callerCfg.TLSConfig][f].len > 0
    /\ edits < MaxEdits
    /\ edits' = edits + 1
    /\ arrs' = [arrs EXCEPT ![objs[callerCfg.TLSConfig][f].arr][1] = "edited"]
    /\ UNCHANGED <<objs, defaultConfig, callerCfg, returnedDefault, transport,
                   buildSnap, hs>>

\* cfg.TLSConfig.NextProtos = []string{...}; likewise Certificates
EditSlice(f) ==
    /\ callerCfg.TLSConfig # 0
    /\ edits < MaxEdits
    /\ edits' = edits + 1
    /\ \E n \in {NewSlice(Heap, <<"fresh">>, 0)} :
          /\ arrs' = n.h.arrs
          /\ objs' = [objs EXCEPT ![callerCfg.TLSConfig][f] = n.sl]
    /\ UNCHANGED <<defaultConfig, callerCfg, returnedDefault, transport,
                   buildSnap, hs>>

\* DefaultHTTPClientInitializer()()
BuildDefault ==
    /\ transport = NoTransport
    /\ Len(objs) < MaxObjs
    /\ \E r \in {DefaultHTTPClientInitializer(Heap)} :
          /\ objs' = r.h.objs
          /\ arrs' = r.h.arrs
          /\ transport' = r.tr
          /\ buildSnap' = [callerId |-> 0,
                           callerBefore |-> DerefTLS(Heap, 0),
                           callerAfter |-> DerefTLS(r.h, 0),
                           built |-> DerefTLS(r.h, r.tr.tls)]
    /\ UNCHANGED <<defaultConfig, callerCfg, returnedDefault, hs, edits>>

\* ConfigureHTTPClientInitializer(&cfg)()
BuildConfigure(h2ok) ==
    /\ transport = NoTransport
    /\ callerCfg # NoConfig
    /\ Len(objs) < MaxObjs
    /\ \E r \in {ConfigureHTTPClientInitializer(Heap, callerCfg, h2ok)} :
          /\ objs' = r.h.objs
          /\ arrs' = r.h.arrs
          /\ transport' = IF r.err = NoErr THEN r.tr
                          ELSE [NoTransport EXCEPT !.kind = "failed"]
          /\ buildSnap' = [callerId |-> callerCfg.TLSConfig,
                           callerBefore |-> DerefTLS(Heap, callerCfg.TLSConfig),
                           callerAfter |-> DerefTLS(r.h, callerCfg.TLSConfig),
                           built |-> DerefTLS(r.h, r.tr.tls)]
    /\ UNCHANGED <<defaultConfig, callerCfg, returnedDefault, hs, edits>>

\* The servers a client meets: those accepting TLS 1.2, TLS 1.3 or both.
Servers == {{VersionTLS12}, {VersionTLS13}, {VersionTLS12, VersionTLS13}}

\* The built transport connects to a server.
Handshake(server) ==
    /\ transport.kind \in {"default", "configure"}
    /\ hs' = [server |-> server,
              version |-> Negotiate(DerefTLS(Heap, transport.tls), server)]
    /\ UNCHANGED <<objs, arrs, defaultConfig, callerCfg, returnedDefault,
                   transport, buildSnap, edits>>

(***************************************************************************)
(* SignerECDSA in full.  The repository holds two Sign methods: the one     *)
(* taking the data as bytes (SignBytes here) checks the key and the curve   *)
(* before it signs, the one taking a string (SignString) signs first.       *)
(* Numbers r and s are kept as their big-endian bytes without leading       *)
(* zeros, which is what big.Int holds.                                      *)
(***************************************************************************)
VARIABLES
    se,             \* the SignerECDSA: its PrivateKey and its Hash
    lastSign,       \* the latest Sign call: method, inputs and results
    nsign,          \* Sign calls so far
    issued          \* the signatures ecdsa.Sign has produced

sigVars == <<se, lastSign, nsign, issued>>

SignerKeys == {"nil", "P224", "P256", "P384", "P521"}
Hashes == {"unset", "SHA256", "SHA384"}

\* se.PrivateKey.Curve.Params().BitSize
CurveBits(k) ==
    CASE k = "P224" -> 224 [] k = "P256" -> 256 [] k = "P384" -> 384
      [] k = "P521" -> 521 [] OTHER -> 0

\* crypto.Hash.Available: the zero Hash is not.
Available(h) == h # "unset"

\* (curveBits + 7) / 8
KeyBytes(bits) == (bits + 7) \div 8

NilBytes == << >>

\* Some numbers below the group order of a curve whose order takes n bytes:
\* one byte, two bytes, one byte short of n, and n bytes.
Scalars(n) ==
    {<<1>>, <<255, 0>>, [k \in 1..(n - 1) |-> IF k = 1 THEN 1 ELSE 0],
     [k \in 1..n |-> IF k = 1 THEN 128 ELSE 255]}

\* ecdsa.Sign(rand.Reader, key, digest): a pair r, s that depends on the
\* random nonce, or an error of the random source.
EcdsaSign(k) ==
    {[r |-> r, s |-> s, err |-> NoErr] :
         r \in Scalars(KeyBytes(CurveBits(k))), s \in Scalars(KeyBytes(CurveBits(k)))}
    \cup {[r |-> NilBytes, s |-> NilBytes, err |-> <<"rand source failed">>]}

\* big.Int.Bytes and big.Int.FillBytes(buf) with len(buf) = n.
FillBytes_Bytes(x, n) == x
FillBytes(x, n) ==
    [k \in 1..n |-> IF k <= n - Len(x) THEN 0 ELSE x[k - (n - Len(x))]]

\* The inputs of Sign, and the digest of an input under a hash: two digests
\* are equal only if the hash and the input are.
Datas == {"", "test message"}
NoDigest == << >>
HashSum(h, data) == <<h, data>>

\* The hash Sign computes the digest with: se.Hash, or SHA-256 when se.Hash
\* is not available.
DigestHash_Keep(h) == h
DigestHash(h) == IF Available(h) THEN h ELSE "SHA256"

\* What Sign returns; digest is the digest it handed to ecdsa.Sign, if it
\* got that far.
SignReturn(sig, err, hash, digest) ==
    [sig |-> sig, err |-> err, panic |-> FALSE, Hash |-> hash, digest |-> digest]
SignPanics(hash) ==
    [sig |-> NilBytes, err |-> NoErr, panic |-> TRUE, Hash |-> hash,
     digest |-> NoDigest]

\* Sign(data []byte) of signer.go, for the outcome e of ecdsa.Sign.  Hash in
\* the result is se.Hash after the call.
SignBytes_AnyCurve(s, data, e) ==
    LET h == DigestHash(s.Hash)
        n == KeyBytes(CurveBits(s.PrivateKey))
    IN  IF s.PrivateKey = "nil"
        THEN SignReturn(NilBytes, <<"missing private key">>, s.Hash, NoDigest)
        ELSE IF e.err # NoErr
        THEN SignReturn(NilBytes, Wrap("ecdsa sign failed", e.err), h,
                        HashSum(h, data))
        ELSE SignReturn(FillBytes(e.r, n) \o FillBytes(e.s, n), NoErr, h,
                        HashSum(h, data))
SignBytes(s, data, e) ==
    LET h == DigestHash(s.Hash)
        n == KeyBytes(CurveBits(s.PrivateKey))
    IN  IF s.PrivateKey = "nil"
        THEN SignReturn(NilBytes, <<"missing private key">>, s.Hash, NoDigest)
        ELSE IF CurveBits(s.PrivateKey) # 256
        THEN SignReturn(NilBytes, <<"unsupported curve">>, h, NoDigest)
        ELSE IF e.err # NoErr
        THEN SignReturn(NilBytes, Wrap("ecdsa sign failed", e.err), h,
                        HashSum(h, data))
        ELSE SignReturn(FillBytes(e.r, n) \o FillBytes(e.s, n), NoErr, h,
                        HashSum(h, data))

\* Sign(str string) of the other signer.go: se.Hash.New() on the zero Hash
\* panics, ecdsa.Sign on a nil key dereferences nil, and the curve is looked
\* at after signing.
SignString(s, data, e) ==
    LET n == KeyBytes(CurveBits(s.PrivateKey))
        d == HashSum(s.Hash, data)
    IN  IF ~Available(s.Hash) \/ s.PrivateKey = "nil"
        THEN SignPanics(s.Hash)
        ELSE IF e.err # NoErr
        THEN SignReturn(NilBytes, e.err, s.Hash, d)
        ELSE IF CurveBits(s.PrivateKey) # 256
        THEN SignReturn(NilBytes, <<"unsupported elliptic curve size">>, s.Hash, d)
        ELSE SignReturn(FillBytes(e.r, n) \o FillBytes(e.s, n), NoErr, s.Hash, d)

NoSign == [method |-> "none", key |-> "nil", hashBefore |-> "unset", data |-> "",
           e |-> [r |-> NilBytes, s |-> NilBytes, err |-> NoErr],
           out |-> SignReturn(NilBytes, NoErr, "unset", NoDigest)]

\* The signatures ecdsa.Sign has produced once it returned e for a digest.
Issue(iss, k, e, digest) ==
    IF digest # NoDigest /\ e.err = NoErr
    THEN iss \cup {<<k, digest, e.r, e.s>>}
    ELSE iss

\* ecdsa.Verify(pub, digest, r, s): the signatures that verify are the ones
\* ecdsa.Sign produced with the private key of pub for that digest.
Verify(pub, digest, r, s) == <<pub, digest, r, s>> \in issued

InitSigner ==
    /\ se \in [PrivateKey : SignerKeys, Hash : Hashes]
    /\ lastSign = NoSign
    /\ nsign = 0
    /\ issued = {}

\* What ecdsa.Sign would do if the call gets to it.
SignInputs(k) == IF k = "nil" THEN {NoSign.e} ELSE EcdsaSign(k)

\* signer.Sign(data) with the bytes method.
CallSignBytes ==
    /\ nsign < MaxSigns
    /\ nsign' = nsign + 1
    /\ \E data \in Datas, e \in SignInputs(se.PrivateKey) :
       \E r \in {SignBytes(se, data, e)} :
          /\ lastSign' = [method |-> "bytes", key |-> se.PrivateKey,
                          hashBefore |-> se.Hash, data |-> data, e |-> e,
                          out |-> r]
          /\ se' = [se EXCEPT !.Hash = r.Hash]
          /\ issued' = Issue(issued, se.PrivateKey, e, r.digest)

\* signer.Sign(str) with the string method.
CallSignString ==
    /\ nsign < MaxSigns
    /\ nsign' = nsign + 1
    /\ \E data \in Datas, e \in SignInputs(se.PrivateKey) :
       \E r \in {SignString(se, data, e)} :
          /\ lastSign' = [method |-> "string", key |-> se.PrivateKey,
                          hashBefore |-> se.Hash, data |-> data, e |-> e,
                          out |-> r]
          /\ se' = [se EXCEPT !.Hash = r.Hash]
          /\ issued' = Issue(issued, se.PrivateKey, e, r.digest)

(***************************************************************************)
(* JWTClaims.SignedString.  Header and Payload are of type any: a value is  *)
(* a Header, a Payload, or a value encoding/json cannot serialize (a        *)
(* channel).  A signer is what its Sign returns; the bytes it was given are *)
(* recorded.  The third segment is encoded byte by byte: a symbol of the    *)
(* base64url alphabet is its index 0..63, and the padding symbol is 64.     *)
(***************************************************************************)
VARIABLES
    jwtCall,        \* the last SignedString call: its inputs and what it did
    njwt            \* SignedString calls so far

jwtVars == <<jwtCall, njwt>>

Pad == 64

\* base64.RawURLEncoding.EncodeToString on bytes: three bytes make four
\* symbols, a rest of one byte two symbols, a rest of two bytes three; the
\* padded encoding fills the last group up to four with the padding symbol.
RECURSIVE URLEncode(_, _)
URLEncode(b, padded) ==
    IF Len(b) = 0 THEN << >>
    ELSE IF Len(b) = 1
    THEN <<b[1] \div 4, (b[1] % 4) * 16>>
         \o (IF padded THEN <<Pad, Pad>> ELSE << >>)
    ELSE IF Len(b) = 2
    THEN <<b[1] \div 4, (b[1] % 4) * 16 + b[2] \div 16, (b[2] % 16) * 4>>
         \o (IF padded THEN <<Pad>> ELSE << >>)
    ELSE <<b[1] \div 4, (b[1] % 4) * 16 + b[2] \div 16,
           (b[2] % 16) * 4 + b[3] \div 64, b[3] % 64>>
         \o URLEncode(SubSeq(b, 4, Len(b)), padded)
RawURLEncode_Padded(b) == URLEncode(b, TRUE)
RawURLEncode(b) == URLEncode(b, FALSE)

\* base64.RawURLEncoding.DecodeString: the bytes, or an error for a symbol
\* outside the alphabet, a lone last symbol, or set bits after the last byte.
RECURSIVE RawURLDecode(_)
RawURLDecode(s) ==
    IF \E k \in 1..Len(s) : s[k] \notin 0..63 THEN [bytes |-> << >>, ok |-> FALSE]
    ELSE IF Len(s) = 0 THEN [bytes |-> << >>, ok |-> TRUE]
    ELSE IF Len(s) = 1 THEN [bytes |-> << >>, ok |-> FALSE]
    ELSE IF Len(s) = 2
    THEN [bytes |-> <<s[1] * 4 + s[2] \div 16>>, ok |-> s[2] % 16 = 0]
    ELSE IF Len(s) = 3
    THEN [bytes |-> <<s[1] * 4 + s[2] \div 16, (s[2] % 16) * 16 + s[3] \div 4>>,
          ok |-> s[3] % 4 = 0]
    ELSE LET rest == RawURLDecode(SubSeq(s, 5, Len(s)))
         IN  [bytes |-> <<s[1] * 4 + s[2] \div 16, (s[2] % 16) * 16 + s[3] \div 4,
                          (s[3] % 4) * 64 + s[4]>> \o rest.bytes,
              ok |-> rest.ok]

\* The values Header and Payload of a JWTClaims may hold.
HeaderValues ==
    {[type |-> "Header", Alg |-> a, Kid |-> k] : a \in {"ES256", "HS256"},
                                                k \in {"", "testkey"}}
PayloadValues ==
    {[type |-> "Payload", Issuer |-> i, IssuedAt |-> t] :
         i \in {"", "issuer"}, t \in {0, 1234567890}}
Unserializable == [type |-> "chan"]

\* json.Marshal of a value of type any.
Marshal(v) ==
    IF v.type = "Header" THEN [json |-> MarshalHeader(v), err |-> NoErr]
    ELSE IF v.type = "Payload" THEN [json |-> MarshalPayload(v), err |-> NoErr]
    ELSE [json |-> << >>, err |-> <<"json: unsupported type">>]

\* json.Unmarshal into a Header.
UnmarshalHeader(obj) ==
    [Alg |-> IF "alg" \in DOMAIN obj THEN obj.alg ELSE "",
     Kid |-> IF "kid" \in DOMAIN obj THEN obj.kid ELSE ""]

\* A Signer: the bytes and the error its Sign returns.
SignData == {NilBytes, <<255>>, <<1, 2>>, <<115, 105, 103>>, <<0, 16, 131, 16, 81>>}
MockSigners ==
    {[signData |-> d, err |-> e] : d \in SignData, e \in {NoErr, <<"sign failed">>}}

\* jwt.SignedString(s): token and error returned, and the inputs s.Sign got.
JWTClaims_SignedString_Masked(jwt, s) ==
    LET header == Marshal(jwt.Header)
        payload == Marshal(jwt.Payload)
        str == <<B64(header.json), B64(payload.json)>>
    IN  IF header.err # NoErr
        THEN [tok |-> EmptyStr, signed |-> << >>,
              err |-> Wrap("failed to marshal JWT header to JSON", header.err)]
        ELSE IF payload.err # NoErr
        THEN [tok |-> EmptyStr, signed |-> << >>,
              err |-> Wrap("failed to marshal JWT payload to JSON", payload.err)]
        ELSE IF s.err # NoErr
        THEN [tok |-> EmptyStr, signed |-> <<str>>,
              err |-> <<"failed to sign JWT data">>]
        ELSE [tok |-> str \o <<RawURLEncode(s.signData)>>, signed |-> <<str>>,
              err |-> NoErr]
JWTClaims_SignedString(jwt, s) ==
    LET header == Marshal(jwt.Header)
        payload == Marshal(jwt.Payload)
        str == <<B64(header.json), B64(payload.json)>>
    IN  IF header.err # NoErr
        THEN [tok |-> EmptyStr, signed |-> << >>,
              err |-> Wrap("failed to marshal JWT header to JSON", header.err)]
        ELSE IF payload.err # NoErr
        THEN [tok |-> EmptyStr, signed |-> << >>,
              err |-> Wrap("failed to marshal JWT payload to JSON", payload.err)]
        ELSE IF s.err # NoErr
        THEN [tok |-> EmptyStr, signed |-> <<str>>,
              err |-> Wrap("failed to sign JWT data", s.err)]
        ELSE [tok |-> str \o <<RawURLEncode(s.signData)>>, signed |-> <<str>>,
              err |-> NoErr]

NoJWT == [jwt |-> [Header |-> Unserializable, Payload |-> Unserializable],
          s |-> [signData |-> NilBytes, err |-> NoErr],
          out |-> [tok |-> EmptyStr, signed |-> << >>, err |-> NoErr]]

InitJWT ==
    /\ jwtCall = NoJWT
    /\ njwt = 0


\* jwt.SignedString(s) on a JWTClaims with any header and payload.
CallSignedString ==
    /\ njwt < MaxJWT
    /\ njwt' = njwt + 1
    /\ \E h \in HeaderValues \cup {Unserializable},
          pl \in PayloadValues \cup {Unserializable}, s \in MockSigners :
          LET jwt == [Header |-> h, Payload |-> pl]
          IN  jwtCall' = [jwt |-> jwt, s |-> s, out |-> JWTClaims_SignedString(jwt, s)]


(***************************************************************************)
(* LoadPKCS8File.  A file is missing or holds data; the data may hold a PEM *)
(* block, with text before and after it; the bytes of the block are a key   *)
(* in some container format, or no key at all.                              *)
(***************************************************************************)
VARIABLES
    loadCall,       \* the last LoadPKCS8File call: the file and what it returned
    nload           \* LoadPKCS8File calls so far

loadVars == <<loadCall, nload>>

\* The contents of a PEM block: container format and the key inside.
DERs ==
    {[format |-> "pkcs8", alg |-> "EC", curve |-> c] :
         c \in {"P224", "P256", "P384", "P521"}}
    \cup {[format |-> "pkcs8", alg |-> a, curve |-> "none"] : a \in {"RSA", "Ed25519"}}
    \cup {[format |-> "sec1", alg |-> "EC", curve |-> "P256"],
          [format |-> "pkcs1", alg |-> "RSA", curve |-> "none"],
          [format |-> "garbage", alg |-> "none", curve |-> "none"]}
NoBlock == [type |-> "none", der |-> [format |-> "garbage", alg |-> "none", curve |-> "none"]]
PEMBlocks ==
    {[type |-> t, der |-> d] :
         t \in {"PRIVATE KEY", "EC PRIVATE KEY", "CERTIFICATE"}, d \in DERs}
Files ==
    {[exists |-> FALSE, before |-> FALSE, block |-> NoBlock, after |-> FALSE]}
    \cup {[exists |-> TRUE, before |-> b, block |-> NoBlock, after |-> FALSE] :
              b \in BOOLEAN}
    \cup {[exists |-> TRUE, before |-> b, block |-> k, after |-> a] :
              b \in BOOLEAN, k \in PEMBlocks, a \in BOOLEAN}

\* os.ReadFile(path).
ReadFile(f) ==
    IF f.exists THEN [data |-> f, err |-> NoErr]
    ELSE [data |-> f, err |-> <<"no such file or directory">>]

\* pem.Decode(data): the first PEM block of the data, whatever its type and
\* whatever comes before it; nil if there is none.
PemDecode(data) == data.block

\* x509.ParsePKCS8PrivateKey(block.Bytes): the key of a PKCS#8 structure.
ParsePKCS8PrivateKey(der) ==
    IF der.format # "pkcs8"
    THEN [key |-> [type |-> "nil", curve |-> "none"], err |-> <<"x509: failed to parse">>]
    ELSE IF der.alg = "EC"
    THEN [key |-> [type |-> "*ecdsa.PrivateKey", curve |-> der.curve], err |-> NoErr]
    ELSE IF der.alg = "RSA"
    THEN [key |-> [type |-> "*rsa.PrivateKey", curve |-> "none"], err |-> NoErr]
    ELSE [key |-> [type |-> "ed25519.PrivateKey", curve |-> "none"], err |-> NoErr]

\* LoadPKCS8File(path): the *ecdsa.PrivateKey ("nil", or its curve) and the
\* error.
LoadPKCS8File(f) ==
    LET rd == ReadFile(f)
        block == PemDecode(rd.data)
        parsed == ParsePKCS8PrivateKey(block.der)
    IN  IF rd.err # NoErr
        THEN [key |-> "nil", err |-> Wrap("failed to read file", rd.err)]
        ELSE IF block = NoBlock
        THEN [key |-> "nil", err |-> <<"file does not contain valid PEM data">>]
        ELSE IF parsed.err # NoErr
        THEN [key |-> "nil", err |-> Wrap("failed to parse private key from file", parsed.err)]
        ELSE IF parsed.key.type # "*ecdsa.PrivateKey"
        THEN [key |-> "nil", err |-> <<"private key from file is not an ECDSA key">>]
        ELSE [key |-> parsed.key.curve, err |-> NoErr]

NoLoad == [file |-> [exists |-> FALSE, before |-> FALSE, block |-> NoBlock,
                     after |-> FALSE],
           out |-> [key |-> "nil", err |-> NoErr]]

InitLoad ==
    /\ loadCall = NoLoad
    /\ nload = 0

\* LoadPKCS8File(path) on any file.
CallLoadPKCS8File ==
    /\ nload < MaxLoads
    /\ nload' = nload + 1
    /\ \E f \in Files : loadCall' = [file |-> f, out |-> LoadPKCS8File(f)]


(***************************************************************************)
(* DefaultClientTrace.  A logger is nil or a *slog.Logger over a handler    *)
(* that is enabled from some level on; a trace holds the method of the      *)
(* logger its callbacks call, or nil when the switch chose none.            *)
(***************************************************************************)
VARIABLES
    dtrace,         \* the trace DefaultClientTrace returned last, or its panic
    lastCb,         \* the last callback invoked on it and what it did
    ncb             \* callbacks invoked so far

traceVars == <<dtrace, lastCb, ncb>>

LevelDebug == 0 - 4
LevelInfo == 0
LevelWarn == 4
LevelError == 8

\* Values of slog.Level: the four named ones and values between and beyond.
Levels == {LevelDebug - 4, LevelDebug, LevelInfo, LevelInfo + 2, LevelWarn,
           LevelError, LevelError + 4}

\* Loggers by the least level their handler is enabled for.
TraceLoggers == {[nil |-> TRUE, min |-> LevelDebug - 4],
                 [nil |-> FALSE, min |-> LevelDebug - 4],
                 [nil |-> FALSE, min |-> LevelWarn]}

\* The switch on level: the logger method bound to log.
LogMethod(level) ==
    IF level = LevelDebug THEN "Debug"
    ELSE IF level = LevelInfo THEN "Info"
    ELSE IF level = LevelWarn THEN "Warn"
    ELSE IF level = LevelError THEN "Error"
    ELSE "nil"

\* The level at which a method of slog.Logger logs.
MethodLevel(m) ==
    IF m = "Debug" THEN LevelDebug
    ELSE IF m = "Info" THEN LevelInfo
    ELSE IF m = "Warn" THEN LevelWarn
    ELSE LevelError

\* DefaultClientTrace(logger, level).
DefaultClientTrace(logger, level) ==
    IF logger.nil
    THEN [built |-> FALSE, panic |-> TRUE, logger |-> logger, level |-> level,
          log |-> "nil"]
    ELSE [built |-> TRUE, panic |-> FALSE, logger |-> logger, level |-> level,
          log |-> LogMethod(level)]

\* The callbacks of the trace, and for GotConn whether info.Conn is nil.
Callbacks ==
    {"GetConn", "GotConn", "DNSStart", "DNSDone", "ConnectStart", "ConnectDone",
     "TLSHandshakeStart", "TLSHandshakeDone", "WroteHeaderField", "WroteRequest",
     "GotFirstResponseByte", "Got100Continue", "PutIdleConn", "Wait100Continue"}
Conns == {"nil", "remote"}

\* One callback of the trace t: calling log when it is nil panics; otherwise
\* the logger method hands one record to the handler if the handler is
\* enabled for the method's level.
Callback(t, name, conn) ==
    IF t.log = "nil"
    THEN [name |-> name, conn |-> conn, panic |-> TRUE, records |-> << >>]
    ELSE [name |-> name, conn |-> conn, panic |-> FALSE,
          records |-> IF MethodLevel(t.log) >= t.logger.min
                      THEN <<[level |-> MethodLevel(t.log), msg |-> name,
                              remoteAddr |-> IF name = "GotConn" THEN conn ELSE ""]>>
                      ELSE << >>]

NoDTrace == [built |-> FALSE, panic |-> FALSE,
             logger |-> [nil |-> TRUE, min |-> LevelDebug - 4],
             level |-> LevelInfo, log |-> "nil"]
NoCallback == [name |-> "none", conn |-> "nil", panic |-> FALSE, records |-> << >>]

InitTrace ==
    /\ dtrace = NoDTrace
    /\ lastCb = NoCallback
    /\ ncb = 0

\* trace := DefaultClientTrace(logger, level).
CallDefaultClientTrace ==
    /\ ncb = 0
    /\ ~dtrace.built /\ ~dtrace.panic
    /\ \E logger \in TraceLoggers, level \in Levels :
          dtrace' = DefaultClientTrace(logger, level)
    /\ UNCHANGED <<lastCb, ncb>>

\* The HTTP transport invokes one callback of the trace.
InvokeCallback ==
    /\ dtrace.built
    /\ ncb < MaxCallbacks
    /\ ~lastCb.panic
    /\ ncb' = ncb + 1
    /\ \E name \in Callbacks, conn \in Conns :
          /\ name # "GotConn" => conn = "nil"
          /\ lastCb' = Callback(dtrace, name, conn)
    /\ UNCHANGED dtrace


(***************************************************************************)
(* The package variable config of the shared-transport variant as a        *)
(* pointer: SetConfig stores the caller's *ClientConfig, and the object it  *)
(* points to stays the caller's to modify.  Durations are in seconds.       *)
(***************************************************************************)
VARIABLES
    cfgHeap,        \* the ClientConfig objects: defaultConfig and the caller's
    configPtr,      \* package variable config: the object it points to, or "nil"
    sharedTr,       \* package variable sharedTransport, with what it copied
    atBuild,        \* the values of *config when the transport was built
    lastClient,     \* the http.Client of the client NewClient returned last
    lastDial,       \* the net.Dialer of the last DialTLSContext call
    ncfgEdits       \* modifications of the caller's object so far

aliasVars == <<cfgHeap, configPtr, sharedTr, atBuild, lastClient, lastDial, ncfgEdits>>
libVars == <<jwtVars, loadVars, traceVars, aliasVars>>

ConfigFields ==
    {"HTTPTimeout", "ReadIdleTimeout", "KeepAlive", "DialTimeout", "MaxIdleConnsPerHost"}

\* var defaultConfig = &ClientConfig{...}
DefaultClientConfig ==
    [HTTPTimeout |-> 60, ReadIdleTimeout |-> 15, KeepAlive |-> 15,
     DialTimeout |-> 20, MaxIdleConnsPerHost |-> 100]

\* The objects a caller hands to SetConfig, and the values it assigns later.
CallerConfigs ==
    {[DefaultClientConfig EXCEPT !.HTTPTimeout = t, !.DialTimeout = d] :
         t \in {5, 60}, d \in {3, 20}}
EditValues == {0, 1}

NilTransport == [built |-> FALSE, MaxIdleConnsPerHost |-> 0, ReadIdleTimeout |-> 0]
NoClientYet == [made |-> FALSE, Timeout |-> 0]
NoDial == [dialed |-> FALSE, Timeout |-> 0, KeepAlive |-> 0]

\* newTransport(): MaxIdleConnsPerHost and ReadIdleTimeout are copied from
\* *config; the dial function keeps reading config.
newTransport(h, c) ==
    [built |-> TRUE, MaxIdleConnsPerHost |-> h[c].MaxIdleConnsPerHost,
     ReadIdleTimeout |-> h[c].ReadIdleTimeout]

\* The function of SetConfig's configOnce.Do on the globals g for the
\* object c: `config = cfg`, then the transport.
SetConfigOnce(h, g, c) ==
    IF g.once THEN g
    ELSE [once |-> TRUE, config |-> c, tr |-> newTransport(h, c), atBuild |-> h[c]]

InitAlias ==
    /\ cfgHeap \in {[defaultConfig |-> DefaultClientConfig, cfg |-> c] :
                       c \in CallerConfigs}
    /\ configPtr = "nil"
    /\ sharedTr = NilTransport
    /\ atBuild = DefaultClientConfig
    /\ lastClient = NoClientYet
    /\ lastDial = NoDial
    /\ ncfgEdits = 0

\* A configuration nobody has set or modified.
RestAlias ==
    /\ InitAlias
    /\ cfgHeap.cfg = DefaultClientConfig

\* The library functions nobody has called yet.
InitLib == InitJWT /\ InitLoad /\ InitTrace /\ RestAlias

AliasGlobals ==
    [once |-> configPtr # "nil", config |-> configPtr, tr |-> sharedTr,
     atBuild |-> atBuild]

\* SetConfig(cfg) with the caller's object.
CallSetConfigPtr ==
    /\ configPtr = "nil"
    /\ \E g \in {SetConfigOnce(cfgHeap, AliasGlobals, "cfg")} :
          /\ configPtr' = g.config
          /\ sharedTr' = g.tr
          /\ atBuild' = g.atBuild
    /\ UNCHANGED <<cfgHeap, lastClient, lastDial, ncfgEdits>>

\* The caller assigns to a field of the object it passed, or will pass.
CallerEdit(f, v) ==
    /\ ncfgEdits < MaxEdits
    /\ cfgHeap.cfg[f] # v
    /\ ncfgEdits' = ncfgEdits + 1
    /\ cfgHeap' = [cfgHeap EXCEPT !.cfg[f] = v]
    /\ UNCHANGED <<configPtr, sharedTr, atBuild, lastClient, lastDial>>

\* NewClient(host, tp): SetConfig(defaultConfig) if there is no shared
\* transport yet, then the client with Timeout: config.HTTPTimeout.
CallNewClientPtr ==
    /\ \E g \in {IF sharedTr.built THEN AliasGlobals
                 ELSE SetConfigOnce(cfgHeap, AliasGlobals, "defaultConfig")} :
          /\ configPtr' = g.config
          /\ sharedTr' = g.tr
          /\ atBuild' = g.atBuild
          /\ lastClient' = [made |-> TRUE, Timeout |-> cfgHeap[g.config].HTTPTimeout]
    /\ UNCHANGED <<cfgHeap, lastDial, ncfgEdits>>

\* The shared transport opens a connection: DialTLSContext builds its
\* net.Dialer from config.DialTimeout and config.KeepAlive.
DialTLSContext ==
    /\ sharedTr.built
    /\ lastDial' = [dialed |-> TRUE, Timeout |-> cfgHeap[configPtr].DialTimeout,
                    KeepAlive |-> cfgHeap[configPtr].KeepAlive]
    /\ UNCHANGED <<cfgHeap, configPtr, sharedTr, atBuild, lastClient, ncfgEdits>>


(***************************************************************************)
(* The specifications.  Each one exercises one part of the repository and   *)
(* leaves the variables of the other parts at rest.                         *)
(***************************************************************************)
vars == <<tokVars, clientVars, doVars, goVars, cfgVars, sigVars, libVars>>
exceptTok == <<clientVars, doVars, goVars, cfgVars, sigVars, libVars>>
exceptClient == <<tokVars, doVars, goVars, cfgVars, sigVars, libVars>>
exceptDo == <<tokVars, clientVars, goVars, cfgVars, sigVars, libVars>>
exceptGo == <<tokVars, doVars, callVars, cfgVars, sigVars, libVars>>
exceptCfg == <<tokVars, clientVars, doVars, goVars, sigVars, libVars>>
exceptSig == <<tokVars, clientVars, doVars, goVars, cfgVars, libVars>>
exceptJWT == <<tokVars, clientVars, doVars, goVars, cfgVars, sigVars, loadVars, traceVars, aliasVars>>
exceptLoad == <<tokVars, clientVars, doVars, goVars, cfgVars, sigVars, jwtVars, traceVars, aliasVars>>
exceptTrace == <<tokVars, clientVars, doVars, goVars, cfgVars, sigVars, jwtVars, loadVars, aliasVars>>
exceptAlias == <<tokVars, clientVars, doVars, goVars, cfgVars, sigVars, jwtVars, loadVars, traceVars>>

\* A provider nobody calls.
RestProvider ==
    /\ key = "P256"
    /\ cache0 = NoCache
    /\ currentToken = EmptyStr
    /\ expiresAt = ZeroTime
    /\ readers = {}
    /\ writer = 0
    /\ pc = [p \in Procs |-> "idle"]
    /\ now = [p \in Procs |-> 0]
    /\ res = [p \in Procs |-> NoRes]
    /\ pending = EmptyStr
    /\ calls = 0
    /\ snap = [p \in Procs |-> NoCache]
    /\ seen = [p \in Procs |-> NoCache]
    /\ signed = [p \in Procs |-> 0]

\* A signer nobody calls.
RestSigner ==
    /\ se = [PrivateKey |-> "P256", Hash |-> "SHA256"]
    /\ lastSign = NoSign
    /\ nsign = 0
    /\ issued = {}

\* A package nobody has called yet.
RestClient ==
    /\ InitClient
    /\ variant = "ordered"

\* TokenProvider.GetToken under concurrent callers.
Init ==
    /\ InitProvider /\ RestClient /\ InitDo /\ InitGoroutines /\ InitConfig
    /\ RestSigner
    /\ InitLib

Next ==
    \/ \E p \in Procs, t \in Instants :
           Call(p, t) /\ UNCHANGED exceptTok
    \/ \E p \in Procs : RLock(p) /\ UNCHANGED exceptTok
    \/ \E p \in Procs : FastCheck(p) /\ UNCHANGED exceptTok
    \/ \E p \in Procs : FastReturn(p) /\ UNCHANGED exceptTok
    \/ \E p \in Procs : Lock(p) /\ UNCHANGED exceptTok
    \/ \E p \in Procs : ReCheck(p) /\ UNCHANGED exceptTok
    \/ \E p \in Procs : Sign(p) /\ UNCHANGED exceptTok
    \/ \E p \in Procs : StoreBegin(p) /\ UNCHANGED exceptTok
    \/ \E p \in Procs : StoreEnd(p) /\ UNCHANGED exceptTok
    \/ \E p \in Procs : LogInfo(p) /\ UNCHANGED exceptTok
    \/ \E p \in Procs : Unlock(p) /\ UNCHANGED exceptTok

Spec == Init /\ [][Next]_vars

\* The steps of one goroutine inside GetToken, and the same behaviours under
\* a scheduler that does not stop while some goroutine can take a step.
Step(p) ==
    \/ RLock(p) \/ FastCheck(p) \/ FastReturn(p) \/ Lock(p) \/ ReCheck(p)
    \/ Sign(p) \/ StoreBegin(p) \/ StoreEnd(p) \/ LogInfo(p) \/ Unlock(p)

SpecFair ==
    /\ Init
    /\ [][Next]_vars
    /\ WF_vars(\E p \in Procs : Step(p) /\ UNCHANGED exceptTok)

\* NewClient of both variants, and SetConfig.
InitNewClient ==
    /\ RestProvider /\ InitClient /\ InitDo /\ InitGoroutines /\ InitConfig
    /\ RestSigner
    /\ InitLib

NextNewClient ==
    \/ CallNewClientOrdered /\ UNCHANGED exceptClient
    \/ CallNewClientShared /\ UNCHANGED exceptClient
    \/ \E cfg \in Configs, built \in BOOLEAN :
           CallSetConfig(cfg, built) /\ UNCHANGED exceptClient

SpecClient == InitNewClient /\ [][NextNewClient]_vars

\* Client.Do on a client of either variant, with and without a trace.
DoClientOptions ==
    {<< >>, <<WithClientTrace("bind")>>,
     <<WithClientTrace("bind"), WithLogger("L1")>>}

InitClientDo ==
    /\ RestProvider
    /\ InitDo
    /\ InitGoroutines
    /\ InitConfig
    /\ RestSigner
    /\ InitLib
    /\ variant \in {"ordered", "shared"}
    /\ args \in DoClientOptions
    /\ LET r == IF variant = "ordered"
                THEN NewClientOrdered("default", args) @@ [g |-> NoGlobals]
                ELSE NewClientShared(NoGlobals, args, TRUE)
       IN  /\ opts = r.opts
           /\ client = r.c
           /\ newErr = r.err
           /\ applied = r.applied
           /\ fcalls = r.fcalls
           /\ config = r.g.config
           /\ sharedTransport = r.g.sharedTransport
           /\ onceDone = r.g.onceDone
    /\ setLog = << >>
    /\ returned = TRUE

NextClientDo ==
    \E h \in AuthHeaders, tp \in TokenOutcomes, rt \in RoundTripOutcomes :
        Do(h, tp, rt) /\ UNCHANGED exceptDo

SpecDo == InitClientDo /\ [][NextClientDo]_vars

\* SetConfig and NewClient of the shared variant called from several
\* goroutines.
InitShared ==
    /\ RestProvider
    /\ InitDo
    /\ InitClient
    /\ variant = "shared"
    /\ InitGoroutines
    /\ InitConfig
    /\ RestSigner
    /\ InitLib

NextShared ==
    \/ \E g \in Goroutines, op \in GoCalls : GoCall(g, op) /\ UNCHANGED exceptGo
    \/ \E g \in Goroutines : CheckShared(g) /\ UNCHANGED exceptGo
    \/ \E g \in Goroutines : OnceSkip(g) /\ UNCHANGED exceptGo
    \/ \E g \in Goroutines : OnceEnter(g) /\ UNCHANGED exceptGo
    \/ \E g \in Goroutines : StoreConfig(g) /\ UNCHANGED exceptGo
    \/ \E g \in Goroutines : BuildShared(g) /\ UNCHANGED exceptGo
    \/ \E g \in Goroutines : OnceLeave(g) /\ UNCHANGED exceptGo
    \/ \E g \in Goroutines : SetConfigReturn(g) /\ UNCHANGED exceptGo
    \/ \E g \in Goroutines : MakeClient(g) /\ UNCHANGED exceptGo

SpecShared == InitShared /\ [][NextShared]_vars

\* Configurations, the transports built from them and their handshakes.
InitConfigs ==
    /\ RestProvider /\ RestClient /\ InitDo /\ InitGoroutines /\ InitConfig
    /\ RestSigner
    /\ InitLib

NextConfigs ==
    \/ CallDefaultConfig /\ UNCHANGED exceptCfg
    \/ \E lit \in TLSLiterals : CallerConfig(lit) /\ UNCHANGED exceptCfg
    \/ EditScalar /\ UNCHANGED exceptCfg
    \/ \E v \in {0, VersionTLS12} : EditTLSField(v) /\ UNCHANGED exceptCfg
    \/ \E f \in SliceFields : EditElement(f) /\ UNCHANGED exceptCfg
    \/ \E f \in SliceFields : EditSlice(f) /\ UNCHANGED exceptCfg
    \/ BuildDefault /\ UNCHANGED exceptCfg
    \/ \E h2ok \in BOOLEAN : BuildConfigure(h2ok) /\ UNCHANGED exceptCfg
    \/ \E server \in Servers : Handshake(server) /\ UNCHANGED exceptCfg

SpecConfig == InitConfigs /\ [][NextConfigs]_vars

\* SignerECDSA.Sign, both methods, on signers with any key and hash.
InitSigners ==
    /\ RestProvider /\ RestClient /\ InitDo /\ InitGoroutines /\ InitConfig
    /\ InitSigner
    /\ InitLib

NextSigners ==
    \/ CallSignBytes /\ UNCHANGED exceptSig
    \/ CallSignString /\ UNCHANGED exceptSig

SpecSigner == InitSigners /\ [][NextSigners]_vars

\* JWTClaims.SignedString on any header, payload and signer.
InitJWTs ==
    /\ RestProvider /\ RestClient /\ InitDo /\ InitGoroutines /\ InitConfig
    /\ RestSigner
    /\ InitLib

NextJWTs == CallSignedString /\ UNCHANGED exceptJWT

SpecJWT == InitJWTs /\ [][NextJWTs]_vars

\* LoadPKCS8File on any file.
InitLoads ==
    /\ RestProvider /\ RestClient /\ InitDo /\ InitGoroutines /\ InitConfig
    /\ RestSigner
    /\ InitLib

NextLoads == CallLoadPKCS8File /\ UNCHANGED exceptLoad

SpecLoad == InitLoads /\ [][NextLoads]_vars

\* DefaultClientTrace and the callbacks of the trace it returns.
InitTraces ==
    /\ RestProvider /\ RestClient /\ InitDo /\ InitGoroutines /\ InitConfig
    /\ RestSigner
    /\ InitLib

NextTraces ==
    \/ CallDefaultClientTrace /\ UNCHANGED exceptTrace
    \/ InvokeCallback /\ UNCHANGED exceptTrace

SpecTrace == InitTraces /\ [][NextTraces]_vars

\* SetConfig with a caller's object, the caller's later assignments to it,
\* and the clients and connections made meanwhile.
InitSharedConfig ==
    /\ RestProvider /\ RestClient /\ InitDo /\ InitGoroutines /\ InitConfig
    /\ RestSigner
    /\ InitJWT /\ InitLoad /\ InitTrace
    /\ InitAlias

NextSharedConfig ==
    \/ CallSetConfigPtr /\ UNCHANGED exceptAlias
    \/ \E f \in ConfigFields, v \in EditValues :
           CallerEdit(f, v) /\ UNCHANGED exceptAlias
    \/ CallNewClientPtr /\ UNCHANGED exceptAlias
    \/ DialTLSContext /\ UNCHANGED exceptAlias

SpecSharedConfig == InitSharedConfig /\ [][NextSharedConfig]_vars

(***************************************************************************)
(* The token cache: properties of GetToken.                                 *)
(***************************************************************************)
OkRes(tok) == [kind |-> "ok", tok |-> tok, err |-> NoErr, racy |-> FALSE]

\* C1: a call that starts on a cache entry T0 still live at its own now, and
\* during which no other call writes the cache, returns exactly T0 without
\* invoking the signer and leaves currentToken and expiresAt as they were.
C1_CachedTokenReturned ==
    \A p \in Procs :
        pc[p] = "done" /\ snap[p] # NoCache =>
            /\ res[p] = OkRes(snap[p].tok)
            /\ signed[p] = 0
            /\ currentToken = snap[p].tok
            /\ expiresAt = snap[p].exp

\* A call issued after a mint of this behaviour returned the minted token.
C1_Witness ==
    \E p \in Procs :
        /\ cache0 = NoCache
        /\ pc[p] = "done" /\ snap[p] # NoCache
        /\ res[p].tok = snap[p].tok /\ IsWhole(res[p].tok)
        /\ now[p] < expiresAt

\* C2: a call whose re-check finds now >= expiresAt (now = expiresAt
\* included) and whose signer succeeds mints: it returns a token other than
\* the cached one, with iat = now in Unix seconds, and leaves that token in
\* the cache with expiresAt = now + TTL.
C2_ExpiredCallMints ==
    \A p \in Procs :
        pc[p] = "unlock" /\ now[p] >= seen[p].exp /\ res[p].kind = "ok" =>
            /\ signed[p] = 1
            /\ res[p].tok # seen[p].tok
            /\ IsWhole(res[p].tok)
            /\ IssuedAtOf(res[p].tok) = Unix(now[p])
            /\ currentToken = res[p].tok
            /\ expiresAt = now[p] + TokenTTL

\* A call at exactly the expiry instant of a cached token has minted.
C2_Witness ==
    \E p \in Procs :
        /\ pc[p] = "unlock" /\ res[p].kind = "ok" /\ signed[p] = 1
        /\ seen[p].tok # EmptyStr /\ now[p] = seen[p].exp
        /\ currentToken # seen[p].tok

\* C3: a call whose signing fails returns the empty token and an error and
\* leaves currentToken and expiresAt as its re-check found them; a returned
\* call holds the lock in no mode; and every call whose re-check finds the
\* cache empty or expired invokes the signer, whatever failed before.
C3_FailedMintLeavesCache ==
    \A p \in Procs :
        /\ pc[p] = "unlock" /\ res[p].kind = "err" =>
              /\ res[p].tok = EmptyStr /\ res[p].err # NoErr
              /\ currentToken = seen[p].tok
              /\ expiresAt = seen[p].exp
        /\ pc[p] = "done" => writer # p /\ p \notin readers
        /\ pc[p] = "unlock" /\ ~Unexpired(seen[p].tok, seen[p].exp, now[p]) =>
              signed[p] = 1

\* One call has failed on a cached token that stayed in place, and after it
\* another call has signed again, this time with success.
C3_Witness ==
    \E p, q \in Procs :
        /\ p # q
        /\ pc[q] = "done" /\ res[q].kind = "err" /\ signed[q] = 1
        /\ pc[p] = "unlock" /\ res[p].kind = "ok" /\ signed[p] = 1
        /\ seen[p].tok # EmptyStr

\* The calls of a burst: every goroutine has made exactly one call, each on
\* a cache that was empty or expired for its now, the nows less than TTL
\* apart, and every call has returned a token.
Burst ==
    /\ calls = NumProcs
    /\ \A p \in Procs : pc[p] = "done" /\ res[p].kind = "ok"
    /\ \A p \in Procs : ~Unexpired(cache0.tok, cache0.exp, now[p])
    /\ \A p, q \in Procs : now[p] - now[q] < TokenTTL

\* C4: in a burst the signer is invoked exactly once and all calls return
\* the same token.
C4_OneSignPerBurst ==
    Burst =>
        /\ Cardinality({p \in Procs : signed[p] = 1}) = 1
        /\ \A p \in Procs : signed[p] <= 1
        /\ \A p, q \in Procs : res[p].tok = res[q].tok

\* A burst on an expired token, with two different nows.
C4_Witness ==
    /\ Burst
    /\ cache0 # NoCache
    /\ \E p, q \in Procs : now[p] # now[q]

\* C5: every successful call returns one whole token: not the empty string,
\* not a mixture of two tokens, not a value read during a store.
C5_WholeTokenReturned ==
    \A p \in Procs :
        pc[p] = "done" /\ res[p].kind = "ok" =>
            /\ res[p].tok # EmptyStr
            /\ IsWhole(res[p].tok)
            /\ ~res[p].racy

(***************************************************************************)
(* Client.Do: properties.                                                   *)
(***************************************************************************)
SentBy(n) == {k \in 1..Len(wire) : wire[k].call = n}

\* C6: when GetToken returns an error, Do returns a nil response and that
\* same error, and hands no request of that call to the underlying HTTP
\* client (in both variants of the client).
C6_TokenErrorAborts ==
    ndo > 0 /\ lastDo.tp.err # NoErr =>
        /\ lastDo.resp = "nil"
        /\ lastDo.err = lastDo.tp.err
        /\ ~lastDo.sent
        /\ SentBy(ndo) = {}

\* The provider failed on the second call, after a first call was dispatched.
C6_Witness ==
    /\ ndo = 2
    /\ lastDo.tp = [tok |-> "tokA", err |-> <<"token error">>]
    /\ lastDo.err = <<"token error">>
    /\ Len(wire) = 1

Built == returned /\ ~client.isNil

\* C8: for NewClient called with WithLogger(L), L a logger, and
\* WithClientTrace(f) in either registration order, the final invocation of
\* f receives L and the client's trace is the value f returned for L.
C8_TraceBoundToLogger ==
    \A l \in Loggers \ {"nil"}, f \in Factories :
        /\ Built
        /\ args \in {<<WithLogger(l), WithClientTrace(f)>>,
                     <<WithClientTrace(f), WithLogger(l)>>}
        => /\ fcalls # << >>
           /\ fcalls[Len(fcalls)] = [f |-> f, logger |-> l]
           /\ client.Trace = TraceOf(f, l)

\* The options in every registration order.
Reorderings(as) ==
    {[k \in 1..Len(as) |-> as[pi[k]]] : pi \in Permutations(1..Len(as))}

\* What NewClient of the variant in use returns for the options bs, from the
\* package state this behaviour's call found.
ClientFor(bs) ==
    IF variant = "ordered" THEN NewClientOrdered("default", bs).c
    ELSE NewClientShared([config |-> config, sharedTransport |-> sharedTransport,
                          onceDone |-> TRUE], bs, TRUE).c

Settings(c) == <<c.Development, c.Logger, c.Transport, c.Timeout, c.Trace>>

\* C9: for every collection of options and every permutation of their
\* registration order, the resulting client has the same Development,
\* Logger, Transport, Timeout and Trace.
C9_OrderInsensitive ==
    Built =>
        \A bs \in Reorderings(args) :
            Settings(ClientFor(bs)) = Settings(ClientFor(args))

\* C10: in the NewClient of client.go the option functions run in ascending
\* order of their OptionOrder whatever their positions in the argument list:
\* each option passed runs once, none with a lower order after one with a
\* higher order; an option of order 0 finds Development unset, and an option
\* of order ClientTrace + 1 finds it set when WithDevelopment was passed.
C10_AppliedAscending ==
    variant = "ordered" /\ Built =>
        /\ \E pi \in Permutations(1..Len(args)) :
               \A k \in 1..Len(args) : applied[k].opt = args[pi[k]]
        /\ Len(applied) = Len(args)
        /\ \A i, j \in 1..Len(applied) :
               applied[i].opt.order < applied[j].opt.order => i < j
        /\ \A k \in 1..Len(applied) :
               /\ applied[k].opt = Probe(0) => ~applied[k].dev
               /\ /\ applied[k].opt = Probe(ClientTrace + 1)
                  /\ \E m \in 1..Len(args) : args[m] = WithDevelopment
                  => applied[k].dev

\* The call of TestNewClient_OptionOrder: last, WithDevelopment, first.
C10_Witness ==
    /\ variant = "ordered"
    /\ Built
    /\ args = <<Probe(ClientTrace + 1), WithDevelopment, Probe(0)>>
    /\ applied = <<[opt |-> Probe(0), dev |-> FALSE],
                   [opt |-> WithDevelopment, dev |-> FALSE],
                   [opt |-> Probe(ClientTrace + 1), dev |-> TRUE]>>

\* How often the option o occurs in the list os, and how often its function
\* ran on the client.
TimesPassed(o, os) == Cardinality({k \in 1..Len(os) : os[k] = o})
TimesApplied(o) == Cardinality({k \in 1..Len(applied) : applied[k].opt = o})

\* C11: in the NewClient of the shared-transport variant every option that
\* reports itself dependent is applied once in the main pass and once more
\* after all options have been applied, each of them when several are
\* supplied: the main pass is the argument list, and what follows it is the
\* dependent options, again in their order.
C11_EachDependentReapplied ==
    variant = "shared" /\ Built =>
        /\ SubSeq(applied, 1, Len(args)) = [k \in 1..Len(args) |->
               [opt |-> args[k], dev |-> applied[k].dev]]
        /\ \A k \in 1..Len(args) :
               IsDependent(args[k]) =>
                   TimesApplied(args[k]) = 2 * TimesPassed(args[k], args)
        /\ \A k \in 1..Len(args) :
               ~IsDependent(args[k]) =>
                   TimesApplied(args[k]) = TimesPassed(args[k], args)

(***************************************************************************)
(* The shared transport under concurrent callers: properties.               *)
(***************************************************************************)
\* The goroutine's NewClient returned a client.
GotClient(g) ==
    gpc[g] = "done" /\ gres[g].kind = "NewClient" /\ gres[g].err = NoErr
PassedTransport(g) ==
    \E k \in 1..Len(gop[g].opts) : gop[g].opts[k].kind = "transport"

\* C12: in every interleaving of concurrent SetConfig and NewClient calls
\* newTransport runs at most once, and all clients created without
\* WithTransport hold the same transport, the one in sharedTransport.
C12_BuiltOnceAndShared ==
    /\ builds <= 1
    /\ \A g, h \in Goroutines :
           GotClient(g) /\ ~PassedTransport(g) /\ GotClient(h) /\ ~PassedTransport(h)
           => /\ gres[g].c.Transport = gres[h].c.Transport
              /\ gres[g].c.Transport = sharedTransport

\* Two NewClient calls and a SetConfig call overlapped: one NewClient found
\* the transport stored while configOnce was still running for another
\* goroutine, and both clients hold the one transport built.
C12_Witness ==
    /\ builds = 1
    /\ \E g, h, s \in Goroutines :
           /\ g # h
           /\ GotClient(g) /\ ~PassedTransport(g) /\ gracy[g]
           /\ GotClient(h) /\ ~PassedTransport(h) /\ ~gracy[h]
           /\ gres[g].c.Transport = "Tshared"
           /\ gres[h].c.Transport = "Tshared"
           /\ gpc[s] = "done" /\ gop[s].kind = "SetConfig"

\* The one execution of newTransport failed.
BuildFailed == onceDone /\ builds > 0 /\ sharedTransport = "nil"

\* C13: if the one-time build of the shared transport fails, every SetConfig
\* call, the first and every later or concurrent one, returns the build
\* error, every NewClient call returns it with a nil client, and no client
\* is produced whose transport is unset.
C13_BuildErrorToAll ==
    /\ BuildFailed =>
           \A g \in Goroutines :
               gpc[g] = "done" =>
                   /\ gres[g].err = <<"http2 configure failed">>
                   /\ gres[g].c = NilClient
    /\ \A g \in Goroutines :
           GotClient(g) /\ ~PassedTransport(g) => gres[g].c.Transport # "nil"

\* C14: every SetConfig(cfg) call that returns nil leaves the global
\* configuration equal to cfg, the second and later calls and a call after
\* a NewClient included.  (config is not stored again once configOnce is
\* done, so it is the value the call left.)
C14_NilMeansConfigured ==
    \A g \in Goroutines :
        gpc[g] = "done" /\ gop[g].kind = "SetConfig" /\ gres[g].err = NoErr
        => config = gop[g].cfg

(***************************************************************************)
(* Configurations and transports: properties.                               *)
(***************************************************************************)
\* C15: a client built by DefaultHTTPClientInitializer has a transport whose
\* TLS configuration has minimum version TLS 1.3, so that no handshake
\* settles on a lower version, and has ForceAttemptHTTP2 set.
C15_DefaultMinTLS13 ==
    transport.kind = "default" =>
        /\ buildSnap.built.MinVersion = VersionTLS13
        /\ transport.ForceAttemptHTTP2
        /\ hs # NoHandshake => hs.version \in {0, VersionTLS13}

\* C16: a transport built by ConfigureHTTPClientInitializer(cfg) with a
\* non-nil cfg.TLSConfig holds a TLS configuration object of its own: the
\* build leaves the caller's object as it was, the ALPN list is on the
\* transport's object, and whatever the caller does to its object after the
\* build, the transport's TLS configuration stays as built.
C16_CallerTLSIsolated ==
    transport.kind = "configure" /\ buildSnap.callerId # 0 =>
        /\ transport.tls # buildSnap.callerId
        /\ buildSnap.callerAfter = buildSnap.callerBefore
        /\ Contains(buildSnap.built.NextProtos, "h2")
        /\ Contains(buildSnap.built.NextProtos, "http/1.1")
        /\ DerefTLS(Heap, transport.tls) = buildSnap.built

\* C17: every DefaultConfig() call returns the default values, TLS minimum
\* version 1.3 among them, in an object of its own, and no modification of
\* a returned value changes the package default.
C17_DefaultConfigIndependent ==
    /\ DerefConfig(Heap, defaultConfig) = DefaultValues
    /\ ~returnedDefault.TLSConfig.isNil =>
           /\ returnedDefault = DefaultValues
           /\ returnedDefault.TLSConfig.MinVersion = VersionTLS13
    /\ callerCfg.from = "DefaultConfig" =>
           callerCfg.TLSConfig # defaultConfig.TLSConfig

\* DefaultConfig() was called, the value it returned was modified twice in
\* its TLS object, and DefaultConfig() was called again.
C17_Witness ==
    /\ edits = 2
    /\ transport = NoTransport
    /\ callerCfg.from = "DefaultConfig"
    /\ callerCfg.TLSConfig = 3
    /\ DerefConfig(Heap, callerCfg) = DefaultValues
    /\ DerefTLS(Heap, 2).MinVersion = VersionTLS12
    /\ DerefTLS(Heap, 2).NextProtos = <<"fresh">>

\* C18: if the initializer passed to NewClient returns an error, NewClient
\* returns a nil client and that error, and no option function has run.
C18_InitializerErrorAborts ==
    variant = "ordered" /\ returned /\ newErr # NoErr =>
        /\ client = NilClient
        /\ newErr = InitializerResult("failing").err
        /\ applied = << >>
        /\ fcalls = << >>

\* The initializer failed in a call that passed three options, a trace
\* factory among them.
C18_Witness ==
    /\ variant = "ordered"
    /\ returned
    /\ newErr = <<"http2 configure failed">>
    /\ args = <<WithClientTrace("bind"), WithDevelopment, WithLogger("L1")>>

(***************************************************************************)
(* SignerECDSA.Sign (the bytes method): properties.                         *)
(***************************************************************************)
\* C19: Sign returns an error and a nil signature whenever the private key
\* is missing or its curve is not 256 bits wide, and returns a signature
\* only for a present key on a 256-bit curve.
C19_KeyAndCurveChecked ==
    lastSign.method = "bytes" =>
        /\ lastSign.key = "nil" \/ CurveBits(lastSign.key) # 256 =>
               /\ lastSign.out.err # NoErr
               /\ lastSign.out.sig = NilBytes
               /\ ~lastSign.out.panic
        /\ lastSign.out.sig # NilBytes =>
               /\ lastSign.key = "P256"
               /\ lastSign.out.err = NoErr

\* A P-384 key for which ecdsa.Sign would have produced r and s.
C19_Witness ==
    /\ lastSign.method = "bytes"
    /\ lastSign.key = "P384"
    /\ lastSign.e.err = NoErr
    /\ lastSign.out.err = <<"unsupported curve">>
    /\ lastSign.out.sig = NilBytes

\* big.Int.SetBytes: the number a big-endian buffer holds.
RECURSIVE SetBytes(_)
SetBytes(b) ==
    IF b = << >> THEN << >> ELSE IF Head(b) = 0 THEN SetBytes(Tail(b)) ELSE b

\* C20: every successful Sign returns 2 * ceil(256 / 8) = 64 bytes, r in the
\* first 32 and s in the last 32, big-endian and padded with zeros on the
\* left, also when r or s needs fewer than 32 bytes.
C20_FixedWidthSignature ==
    lastSign.method = "bytes" /\ lastSign.out.err = NoErr /\ ~lastSign.out.panic =>
        LET sig == lastSign.out.sig IN
        /\ Len(sig) = 64
        /\ Len(sig) = 2 * ((256 + 7) \div 8)
        /\ SetBytes(SubSeq(sig, 1, 32)) = lastSign.e.r
        /\ SetBytes(SubSeq(sig, 33, 64)) = lastSign.e.s
        /\ \A k \in 1..(32 - Len(lastSign.e.r)) : sig[k] = 0
        /\ \A k \in 1..(32 - Len(lastSign.e.s)) : sig[32 + k] = 0

\* r takes one byte and s takes 31.
C20_Witness ==
    /\ lastSign.method = "bytes"
    /\ lastSign.out.err = NoErr
    /\ lastSign.e.r = <<1>>
    /\ Len(lastSign.e.s) = 31
    /\ Len(lastSign.out.sig) = 64
    /\ lastSign.out.sig[32] = 1
    /\ lastSign.out.sig[33] = 0
    /\ lastSign.out.sig[34] = 1

\* The two halves of a signature as ecdsa.Verify receives them.
SigR(sig) == SetBytes(SubSeq(sig, 1, Len(sig) \div 2))
SigS(sig) == SetBytes(SubSeq(sig, Len(sig) \div 2 + 1, Len(sig)))
SignedBytes ==
    /\ lastSign.method = "bytes"
    /\ lastSign.key = "P256"
    /\ ~lastSign.out.panic
    /\ lastSign.out.err = NoErr

\* C21 as stated: under a P-256 key the signature Sign(data) returns, split
\* into r and s, verifies under the public key against the SHA-256 digest of
\* data.  A signer whose Hash is SHA-384 signs the SHA-384 digest.
C21_VerifiesAgainstSHA256 ==
    SignedBytes =>
        Verify("P256", HashSum("SHA256", lastSign.data),
               SigR(lastSign.out.sig), SigS(lastSign.out.sig))

\* C21, amended: the signature verifies against the digest of data under the
\* signer's Hash, which is SHA-256 when the Hash was SHA-256 or never set.
C21_VerifiesAgainstSignerHash ==
    SignedBytes =>
        Verify("P256",
               HashSum(IF lastSign.hashBefore = "unset" THEN "SHA256"
                       ELSE lastSign.hashBefore, lastSign.data),
               SigR(lastSign.out.sig), SigS(lastSign.out.sig))
C21_Witness ==
    /\ SignedBytes
    /\ lastSign.hashBefore = "unset"
    /\ lastSign.data = "test message"
    /\ Len(lastSign.e.r) < 32
    /\ Verify("P256", HashSum("SHA256", lastSign.data),
              SigR(lastSign.out.sig), SigS(lastSign.out.sig))

JWTSucceeded == njwt > 0 /\ jwtCall.out.err = NoErr
JWTFields(v) == [f \in DOMAIN v \ {"type"} |-> v[f]]

JWTFailed ==
    /\ njwt > 0
    /\ \/ Marshal(jwtCall.jwt.Header).err # NoErr
       \/ Marshal(jwtCall.jwt.Payload).err # NoErr
       \/ jwtCall.s.err # NoErr

\* C23: a SignedString that fails returns the empty string and an error; if
\* the header or the payload cannot be serialized the signer is not called;
\* if the signer fails the error returned wraps the signer's error; a token
\* is never returned together with an error.
C23_FailureReturnsNoToken ==
    /\ JWTFailed => jwtCall.out.tok = EmptyStr /\ jwtCall.out.err # NoErr
    /\ njwt > 0 /\ ( \/ Marshal(jwtCall.jwt.Header).err # NoErr
                     \/ Marshal(jwtCall.jwt.Payload).err # NoErr )
           => jwtCall.out.signed = << >>
    /\ JWTFailed /\ jwtCall.out.signed # << >>
           => /\ Len(jwtCall.out.err) > Len(jwtCall.s.err)
              /\ SubSeq(jwtCall.out.err, Len(jwtCall.out.err) - Len(jwtCall.s.err) + 1,
                        Len(jwtCall.out.err)) = jwtCall.s.err
    /\ jwtCall.out.err # NoErr => jwtCall.out.tok = EmptyStr
C23_Witness ==
    /\ JWTFailed
    /\ jwtCall.out.signed # << >>
    /\ jwtCall.s.signData # NilBytes
    /\ jwtCall.out.err = <<"failed to sign JWT data", "sign failed">>

\* C24: LoadPKCS8File returns a non-nil key only for a readable file with a
\* PEM block that parses as PKCS#8 and holds an EC key on P-256; in every
\* other case it returns an error and a nil key.
C24_OnlyP256Loaded ==
    nload > 0 =>
        LET f == loadCall.file
            good == /\ f.exists
                    /\ f.block # NoBlock
                    /\ f.block.der.format = "pkcs8"
                    /\ f.block.der.alg = "EC"
                    /\ f.block.der.curve = "P256"
        IN  IF good
            THEN loadCall.out.key # "nil" => loadCall.out.err = NoErr
            ELSE loadCall.out.key = "nil" /\ loadCall.out.err # NoErr

\* C25: on a trace built by DefaultClientTrace from a non-nil logger and any
\* level, every callback returns normally and, the logger's handler being
\* enabled for that level, emits exactly one record at that level.
C25_CallbackLogsAndReturns ==
    dtrace.built /\ ncb > 0 =>
        /\ ~lastCb.panic
        /\ dtrace.level >= dtrace.logger.min =>
               /\ Len(lastCb.records) = 1
               /\ lastCb.records[1].level = dtrace.level
               /\ lastCb.records[1].msg = lastCb.name

\* Where a goroutine stands in GetToken: its next step reads, or writes,
\* currentToken or expiresAt.
HoldsMu(p) == p \in readers \/ writer = p
AboutToRead(p) == pc[p] \in {"fast", "fastret", "recheck"}
AboutToWrite(p) == pc[p] \in {"store", "storing"}

\* C26: GetToken reads currentToken and expiresAt only while it holds mu in
\* read or write mode, the read of the value the fast path returns included,
\* and writes them only while it holds mu in write mode.
C26_FieldsAccessedUnderMu ==
    \A p \in Procs :
        /\ AboutToRead(p) => HoldsMu(p)
        /\ AboutToWrite(p) => writer = p

\* C27: between Lock and Unlock a GetToken call only re-checks, encodes and
\* signs, and assigns the two fields; it emits no log record while it holds
\* the exclusive lock.
C27_NoLogUnderLock ==
    \A p \in Procs : pc[p] = "log" => writer # p

\* A call that has just minted, still holding the lock.
Minted(p) == pc[p] = "unlock" /\ res[p].kind = "ok" /\ signed[p] = 1

\* C28: a minted token's header carries alg "ES256" and kid = keyID, its
\* payload iss = teamID and iat = the Unix seconds of the minting call's
\* now, so iat is never later than that now.
C28_MintedTokenFields ==
    \A p \in Procs :
        Minted(p) =>
            LET hdr == UnmarshalHeader(UnB64(res[p].tok[1]))
                pl == UnmarshalPayload(UnB64(res[p].tok[2]))
            IN  /\ IsWhole(res[p].tok)
                /\ hdr.Alg = "ES256"
                /\ hdr.Kid = KeyID
                /\ pl.Issuer = TeamID
                /\ pl.IssuedAt = Unix(now[p])
                /\ pl.IssuedAt * TicksPerSecond <= now[p]
                /\ (pl.IssuedAt + 1) * TicksPerSecond > now[p]
C28_Witness ==
    \E p \in Procs :
        /\ Minted(p)
        /\ now[p] > TokenTTL
        /\ now[p] % TicksPerSecond # 0
        /\ UnmarshalPayload(UnB64(res[p].tok[2])).IssuedAt = TokenTTL \div TicksPerSecond

\* C29: once SetConfig(cfg) has built the shared transport, assignments to
\* the caller's cfg change neither the HTTP timeout of clients made
\* afterwards nor the dial timeout and keep-alive the transport dials with:
\* they stay the values cfg had at the build.
C29_ConfigFixedAfterBuild ==
    sharedTr.built /\ configPtr = "cfg" =>
        /\ lastClient.made => lastClient.Timeout = atBuild.HTTPTimeout
        /\ lastDial.dialed =>
               /\ lastDial.Timeout = atBuild.DialTimeout
               /\ lastDial.KeepAlive = atBuild.KeepAlive

\* C30: Sign leaves the signer's PrivateKey and Hash as they were, for every
\* input and every signer, one whose Hash was never set included.
C30_SignerUnchanged ==
    lastSign.method = "bytes" /\ ~lastSign.out.panic =>
        /\ se.PrivateKey = lastSign.key
        /\ lastSign.out.Hash = lastSign.hashBefore

\* C31: no public operation panics on bad input; DefaultClientTrace with a
\* nil logger returns to its caller instead of aborting.
C31_NoPanicOnBadInput == ~dtrace.panic

\* C32: once the shared transport is built no step changes it, a client a
\* goroutine has obtained is not changed by the NewClient calls and options
\* of other goroutines, and a Do call leaves the client it runs on as it was.
C32_SharedTransportReadOnly ==
    [][ /\ sharedTransport # "nil" => sharedTransport' = sharedTransport
        /\ \A h \in Goroutines :
               GotClient(h) /\ gpc'[h] = "done" => gres'[h] = gres[h]
        /\ ndo' # ndo => client' = client ]_vars
C32_Witness ==
    \E g, h \in Goroutines :
        /\ g # h
        /\ GotClient(g) /\ ~PassedTransport(g)
        /\ gres[g].c.Transport = "Tshared"
        /\ GotClient(h) /\ PassedTransport(h)
        /\ gres[h].c.Transport = "T1"
        /\ sharedTransport = "Tshared"

\* The positions of a call in the steps of the last Do.
StepsOf(s) == {k \in 1..Len(lastDo.steps) : lastDo.steps[k] = s}

\* C33: a Do call binds the trace first, and only if the client has one,
\* calls GetToken exactly once, then sets the Authorization header, then
\* calls the HTTP client's Do, each at most once; what that call answers is
\* what Do returns.
C33_DoStepsInOrder ==
    ndo > 0 =>
        /\ \A s \in {"WithClientTrace", "Header.Set", "HTTPClient.Do"} :
               Cardinality(StepsOf(s)) <= 1
        /\ Cardinality(StepsOf("GetToken")) = 1
        /\ StepsOf("WithClientTrace") = IF client.Trace # NoTrace THEN {1} ELSE {}
        /\ \A i \in StepsOf("GetToken"), j \in StepsOf("Header.Set"),
              k \in StepsOf("HTTPClient.Do") : i < j /\ j < k
        /\ StepsOf("HTTPClient.Do") # {} <=> lastDo.sent
        /\ lastDo.sent => /\ lastDo.resp = lastDo.rt.resp
                          /\ lastDo.err = lastDo.rt.err
                          /\ Cardinality(SentBy(ndo)) = 1
C33_Witness ==
    /\ ndo > 0
    /\ client.Trace # NoTrace
    /\ lastDo.steps = <<"WithClientTrace", "GetToken", "Header.Set", "HTTPClient.Do">>
    /\ lastDo.rt.err = <<"dial failed">>
    /\ lastDo.err = <<"dial failed">>

InCall(p) == pc[p] \notin {"idle", "done"}

\* C34: under fair scheduling every GetToken call returns, for any number
\* of concurrent callers; a caller waiting for the exclusive lock does not
\* hold the shared lock, and the exclusive lock is free again once its
\* holder has returned.
C34_EveryCallReturns ==
    /\ \A p \in Procs : [](pc[p] = "lock" => p \notin readers)
    /\ \A p \in Procs : [](pc[p] \in {"idle", "done"} => writer # p /\ p \notin readers)
    /\ \A p \in Procs : InCall(p) ~> pc[p] = "done"
C34_Witness ==
    \E p, q \in Procs :
        /\ p # q
        /\ pc[p] = "lock"
        /\ writer = q
        /\ pc[q] = "sign"

\* C35: in every state the cache is empty with the zero expiry, or its
\* expiry is the mint time of its token plus the TTL (the token's iat is the
\* second of expiresAt - TTL); no step decreases expiresAt, and the store of
\* a mint strictly increases it, whatever the order of the now values.
C35_ExpiryFollowsMint ==
    /\ [](\/ currentToken = EmptyStr /\ expiresAt = ZeroTime
          \/ /\ IsWhole(currentToken)
             /\ expiresAt >= TokenTTL
             /\ Unix(expiresAt - TokenTTL) = IssuedAtOf(currentToken))
    /\ [][ /\ expiresAt' >= expiresAt
           /\ (\E p \in Procs : pc[p] = "storing" /\ pc'[p] = "log")
                  => /\ expiresAt' > expiresAt
                     /\ currentToken' # currentToken ]_vars
C35_Witness ==
    \E p, q \in Procs :
        /\ p # q
        /\ cache0 # NoCache
        /\ pc[p] = "done" /\ signed[p] = 1 /\ res[p].kind = "ok"
        /\ expiresAt = now[p] + TokenTTL
        /\ expiresAt > cache0.exp
        /\ pc[q] = "done" /\ signed[q] = 0 /\ now[q] < now[p]
        /\ res[q].kind = "ok" /\ res[q].tok = currentToken

\* C36: a token a GetToken(now) call returns is unexpired at that now.  On
\* the slow path the call returns the cached token while it holds the lock;
\* on the fast path it returns what the cache holds, or is being given, when
\* it reads it; in each case now lies before the expiry of that token.
C36_ReturnedTokenUnexpired ==
    \A p \in Procs :
        /\ pc[p] = "unlock" /\ res[p].kind = "ok" =>
               /\ res[p].tok = currentToken
               /\ now[p] < expiresAt
        /\ pc[p] = "fastret" =>
               /\ now[p] < expiresAt
               /\ \A q \in Procs : pc[q] = "storing" => now[p] < Expiry(now[q])
C36_Witness ==
    \E p, q \in Procs :
        /\ pc[p] = "fastret"
        /\ pc[q] = "storing"
        /\ now[q] > now[p]
        /\ now[p] % TicksPerSecond # 0

\* C37: only a call that holds the exclusive lock invokes the signer, so at
\* most one signing is in progress and none while a goroutine holds the
\* shared lock.
C37_SignUnderExclusiveLock ==
    /\ \A p \in Procs : pc[p] = "sign" => writer = p /\ readers = {}
    /\ Cardinality({p \in Procs : pc[p] = "sign"}) <= 1
C37_Witness ==
    \E p, q \in Procs :
        /\ pc[p] = "sign"
        /\ pc[q] = "rlock"
        /\ signed[q] = 0
        /\ cache0 # NoCache

\* C38: after NewClient(init, host, tp, opts...) has returned, the caller's
\* opts slice holds the options it held before the call, in the same
\* positions.
C38_CallerOptsUnchanged ==
    returned /\ variant = "ordered" => opts = args

\* C39: a client NewClient returns has a non-nil logger whatever options it
\* was given: with no non-nil WithLogger argument it has the discarding
\* logger, with no non-nil WithTransport argument the transport it was built
\* with, its trace is the last non-nil trace a factory returned (none if
\* there was none), and no factory was handed a nil logger.
BuiltTransports(v) ==
    IF v = "shared" THEN {sharedTransport}
    ELSE {InitializerResult(i).Transport : i \in {"default", "configure"}}
ArgsOf(kind) == {args[k].arg : k \in {j \in 1..Len(args) : args[j].kind = kind}}
TraceMade(k) == TraceOf(fcalls[k].f, fcalls[k].logger)
TracesMade == {k \in 1..Len(fcalls) : TraceMade(k) # NoTrace}
C39_NilArgumentsIgnored ==
    returned /\ newErr = NoErr =>
        /\ ~client.isNil
        /\ client.Logger # "nil"
        /\ client.Logger \in (ArgsOf("logger") \ {"nil"}) \cup {DiscardLogger}
        /\ ArgsOf("logger") \subseteq {"nil"} => client.Logger = DiscardLogger
        /\ ArgsOf("transport") \subseteq {"nil"} =>
               client.Transport \in BuiltTransports(variant)
        /\ client.Trace = IF TracesMade = {} THEN NoTrace
                          ELSE TraceMade(CHOOSE k \in TracesMade :
                                             \A j \in TracesMade : j <= k)
        /\ \A k \in 1..Len(fcalls) : fcalls[k].logger # "nil"
C39_Witness ==
    /\ returned /\ newErr = NoErr
    /\ \E k \in 1..Len(args) : args[k] = WithLogger("nil")
    /\ \E k \in 1..Len(args) : args[k] = WithTransport("nil")
    /\ \E k \in 1..Len(args) : args[k] = WithClientTrace("none")
    /\ client.Logger = DiscardLogger
    /\ client.Transport \in BuiltTransports(variant)
    /\ client.Transport # "nil"
    /\ client.Trace = NoTrace
    /\ fcalls # << >>
=============================================================================
